---- MODULE Spec2Model ----
(***************************************************************************)
(* World Monitor backend: the ingestion orchestrator                       *)
(* (app/jobs/event_ingestion.py), the SQLite event store                   *)
(* (app/data/event_store.py) and the alert inbox transitions               *)
(* (app/api/events_router.py), as one state machine.                       *)
(*                                                                         *)
(* Text is a sequence of one-character strings so that lower(), strip()    *)
(* and the alnum/whitespace collapsing of _normalize_text are computed.    *)
(* sha256 is taken to be injective: a hash is modelled by the tuple that   *)
(* is hashed.  Wall-clock time (utc_now_iso) is the integer `clock`, which *)
(* never decreases.  uuid4() is a fresh number taken from `nextId`.        *)
(***************************************************************************)
EXTENDS Integers, Sequences, FiniteSets, TLC

\* ---------------------------------------------------------------- bounds
MaxCalls == 2          \* ingest() calls made in one behaviour
MaxFetch == 1          \* events one connector.fetch returns
MaxEvents == 2         \* events the connectors build in one behaviour
MaxEnvSteps == 2       \* clock ticks, store faults and inbox requests in one behaviour

\* ------------------------------------------------------------- constants
NoThread == "free"
None == "None"        \* Python None where a string is expected
NoTime == -1          \* Python None / SQL NULL where a timestamp is expected

\* callers of ingest(): _scheduler_loop (force=False), POST /jobs/run and
\* GET /events?refresh=1 (force=True)
Threads == {"scheduler", "http"}

\* self.connectors, in their fixed order; any EventConnector
Connectors == <<"A", "B", "ACLED">>

\* a mutant: the enabled flag of a connector is not looked at
ConnectorEnabledAlways(c) == TRUE

\* getattr(connector, "enabled", True): ACLED has no API key configured
ConnectorEnabled(c) == c # "ACLED"

\* strftime("%Y-%m-%dT%H"): occurred_at is counted in minutes
MinutesPerHour == 60

\* ------------------------------------------------------------------ text
Space == " "
UpperToLower == [c \in {"Q", "X", "J", "P", "G", "A", "R"} |->
                   CASE c = "Q" -> "q" [] c = "X" -> "x"
                     [] c = "J" -> "j" [] c = "P" -> "p" [] c = "G" -> "g"
                     [] c = "A" -> "a" [] c = "R" -> "r"]
AlnumChars == {"q", "x", "j", "p", "c", "f", "g", "Q", "X", "J", "P", "G", "1"}

\* str.lower()
Lower(s) == [i \in 1..Len(s) |->
               IF s[i] \in DOMAIN UpperToLower THEN UpperToLower[s[i]] ELSE s[i]]

RECURSIVE StripLeft(_)
StripLeft(s) == IF s # <<>> /\ Head(s) = Space THEN StripLeft(Tail(s)) ELSE s

RECURSIVE StripRight(_)
StripRight(s) ==
    IF s # <<>> /\ s[Len(s)] = Space THEN StripRight(SubSeq(s, 1, Len(s) - 1)) ELSE s

\* str.strip()
Strip(s) == StripRight(StripLeft(s))

\* "".join(ch if ch.isalnum() else " " for ch in lowered)
BlankNonAlnum(s) == [i \in 1..Len(s) |-> IF s[i] \in AlnumChars THEN s[i] ELSE Space]

\* " ".join(normalized.split()) appended to acc; a long text is joined from
\* the words of its two halves, with one blank between them unless a word
\* runs across the cut
RECURSIVE JoinSplit(_, _, _)
JoinSplit(s, acc, pending) ==
    IF Len(s) > 16
    THEN LET half == Len(s) \div 2
             first == JoinSplit(SubSeq(s, 1, half), acc, pending)
             second == JoinSplit(SubSeq(s, half + 1, Len(s)), <<>>, FALSE)
         IN IF second = <<>> THEN first
            ELSE IF first = <<>> THEN second
            ELSE first \o (IF s[half] = Space \/ s[half + 1] = Space
                           THEN <<Space>> ELSE <<>>) \o second
    ELSE IF s = <<>> THEN acc
    ELSE IF Head(s) = Space THEN JoinSplit(Tail(s), acc, acc # <<>>)
    ELSE JoinSplit(Tail(s),
                   (IF pending THEN Append(acc, Space) ELSE acc) \o <<Head(s)>>,
                   FALSE)

\* event_store._normalize_text
NormalizeText(s) == JoinSplit(BlankNonAlnum(Strip(Lower(s))), <<>>, FALSE)

\* ------------------------------------------------------- what feeds carry
TitleQuakeA == <<"Q", "!">>
TitleQuakeB == <<Space, "q">>
TitleFlood  == <<"f">>
CountryJP   == <<"J", "P">>
CountryCL   == <<"c">>
UrlX        == <<"x">>
UrlXUpper   == <<"X", Space>>
NoUrl       == <<>>

\* the records an upstream feed may hold for a connector
FeedItems(c) ==
    IF c = "ACLED" THEN {}
    ELSE IF c = "A"
    THEN { [external_id |-> "a1", source_url |-> UrlX, title |-> TitleQuakeA,
            country |-> CountryJP, region |-> <<"g">>,
            category |-> "disaster", summary |-> <<>>, body_snippet |-> <<>>,
            severity |-> 70, occurred_at |-> 70],
           [external_id |-> "a2", source_url |-> NoUrl, title |-> TitleQuakeA,
            country |-> CountryJP, region |-> <<"g">>,
            category |-> "disaster", summary |-> <<>>, body_snippet |-> <<>>,
            severity |-> 80, occurred_at |-> 61] }
    ELSE { [external_id |-> "b1", source_url |-> UrlXUpper, title |-> TitleFlood,
            country |-> CountryCL, region |-> <<"g">>,
            category |-> "disaster", summary |-> <<>>, body_snippet |-> <<>>,
            severity |-> 40, occurred_at |-> 200],
           [external_id |-> "b2", source_url |-> NoUrl, title |-> TitleQuakeB,
            country |-> CountryJP, region |-> <<"g">>,
            category |-> "disaster", summary |-> <<>>, body_snippet |-> <<>>,
            severity |-> 60, occurred_at |-> 95],
           [external_id |-> "b3", source_url |-> NoUrl, title |-> TitleQuakeB,
            country |-> CountryJP, region |-> <<"g">>,
            category |-> "disaster", summary |-> <<>>, body_snippet |-> <<>>,
            severity |-> 55, occurred_at |-> 130] }

\* alert_rules table: the rule of the example scenario and a disabled rule
Rules == << [id |-> "r1", enabled |-> TRUE, severity_threshold |-> 50,
             countries |-> {CountryJP}, regions |-> {}, categories |-> {},
             keywords |-> {}, spike_detection |-> FALSE],
            [id |-> "r2", enabled |-> FALSE, severity_threshold |-> 0,
             countries |-> {}, regions |-> {}, categories |-> {},
             keywords |-> {}, spike_detection |-> FALSE] >>

VARIABLES
    runLock,        \* _run_lock: the thread holding it, or NoThread
    pc,             \* where each caller is inside ingest()
    frame,          \* the locals of each caller's ingest() invocation
    result,         \* what ingest() gave its caller
    running, lastStarted, lastFinished, lastError, lastIngested,
    clock,          \* utc_now_iso()
    nextId,         \* uuid4()
    calls, envSteps,
    events,         \* table events
    alertEvents,    \* table alert_events
    connectorStatus,\* table connector_status
    ingestionLogs,  \* table ingestion_logs
    auditLogs,      \* table audit_logs
    delivered,      \* history: id, dedupe hash and ingested_at of every
                    \* candidate handed to _evaluate_rules
    reply,          \* the last direct call of a connector or of the store:
                    \* its arguments and what it returned
    svc,            \* a polling service: its refresh lock, cache stamps and
                    \* where each caller is inside refresh()
    db,             \* EventStore._lock and where each caller is inside a
                    \* store operation
    http            \* one HttpFetcher request: the attempt it is at, how many
                    \* times it opened the URL and how it ended

vars == <<runLock, pc, frame, result, running, lastStarted, lastFinished,
          lastError, lastIngested, clock, nextId, calls, envSteps, events,
          alertEvents, connectorStatus, ingestionLogs, auditLogs, delivered,
          reply, svc, db, http>>

\* the state of the orchestrator and of the store
ingest_vars == <<runLock, pc, frame, result, running, lastStarted, lastFinished,
                 lastError, lastIngested, clock, nextId, calls, envSteps, events,
                 alertEvents, connectorStatus, ingestionLogs, auditLogs, delivered>>

\* the services beside the orchestrator
other_vars == <<svc, db, http>>

status_vars == <<running, lastStarted, lastFinished, lastError, lastIngested>>
store_vars == <<events, alertEvents, connectorStatus, ingestionLogs, auditLogs>>

\* ------------------------------------------------------- the event store

\* _iso_to_datetime(occurred_at).strftime("%Y-%m-%dT%H")
BucketHour(occurred_at) == occurred_at \div MinutesPerHour

\* EventStore._event_hashes
EventHashes(event) ==
    LET title_norm == NormalizeText(event.title)
        url_norm   == Lower(Strip(event.source_url))
        bucket     == BucketHour(event.occurred_at)
        dedupe_base == IF url_norm # <<>>
                       THEN <<"url", url_norm>>
                       ELSE <<"title", title_norm, NormalizeText(event.country), bucket>>
    IN [dedupe_hash |-> dedupe_base, title_hash |-> title_norm,
        url_norm |-> url_norm, bucket_hour |-> bucket]

DedupeHash(event) == EventHashes(event).dedupe_hash

\* the VALUES clause of the INSERT: the row a candidate is inserted as
InsertedRow(event) ==
    LET h == EventHashes(event)
    IN [id |-> event.id, external_id |-> event.external_id, source |-> event.source,
        source_url |-> event.source_url, title |-> event.title,
        summary |-> event.summary, body_snippet |-> event.body_snippet,
        category |-> event.category, country |-> event.country,
        region |-> event.region, severity |-> event.severity,
        occurred_at |-> event.occurred_at, ingested_at |-> event.ingested_at,
        updated_at |-> event.updated_at, cluster_id |-> event.cluster_id,
        dedupe_hash |-> h.dedupe_hash, title_hash |-> h.title_hash,
        url_norm |-> h.url_norm, bucket_hour |-> h.bucket_hour]

\* a mutant: INSERT OR REPLACE, the conflicting row is replaced whole
ConflictReplace(row, event) == InsertedRow(event)

\* a mutant: INSERT OR IGNORE, the conflicting row is kept as it is
ConflictIgnore(row, event) == row

\* ON CONFLICT(dedupe_hash) DO UPDATE SET ...: id and external_id are not in
\* the SET list
ConflictUpdate(row, event) ==
    LET h == EventHashes(event)
    IN [row EXCEPT !.source = event.source, !.source_url = event.source_url,
                   !.title = event.title, !.summary = event.summary,
                   !.body_snippet = event.body_snippet,
                   !.category = event.category, !.country = event.country,
                   !.region = event.region,
                   !.severity = event.severity, !.occurred_at = event.occurred_at,
                   !.ingested_at = event.ingested_at,
                   !.updated_at = event.updated_at,
                   !.cluster_id = event.cluster_id,
                   !.title_hash = h.title_hash, !.url_norm = h.url_norm,
                   !.bucket_hour = h.bucket_hour]

\* one cursor.execute of the loop in upsert_events
UpsertOne(rows, event) ==
    IF \E r \in rows : r.dedupe_hash = DedupeHash(event)
    THEN {IF r.dedupe_hash = DedupeHash(event) THEN ConflictUpdate(r, event) ELSE r :
            r \in rows}
    ELSE rows \cup {InsertedRow(event)}

\* the first k statements of the loop, inside the open transaction
RECURSIVE UpsertPrefix(_, _, _)
UpsertPrefix(rows, batch, k) ==
    IF k = 0 THEN rows
    ELSE UpsertOne(UpsertPrefix(rows, batch, k - 1), batch[k])

\* a mutant: every statement autocommits, a failure keeps the rows written
TransactionPartial(rows, batch, failAt) ==
    IF failAt = 0 THEN UpsertPrefix(rows, batch, Len(batch))
    ELSE UpsertPrefix(rows, batch, failAt - 1)

\* `with self._lock, self._connect() as conn`: commit when the block ends,
\* rollback when a statement (the failAt-th, or the commit itself) raises
TransactionOutcome(rows, batch, failAt) ==
    IF failAt = 0 THEN UpsertPrefix(rows, batch, Len(batch))
    ELSE rows

\* a mutant: the transaction of upsert_events is never committed
UpsertEventsUncommitted(rows, batch, failAt) == rows

\* EventStore.upsert_events: the table afterwards; failAt = 0 is success
UpsertEvents(rows, batch, failAt) ==
    IF batch = <<>> THEN rows ELSE TransactionOutcome(rows, batch, failAt)

\* ----------------------------------------------------------- timestamps

\* datetime.now(timezone.utc) carries a sub-second part: an instant is a
\* number of ticks, and a stored timestamp a whole number of minutes
TicksPerMinute == 2
HourTicks == MinutesPerHour * TicksPerMinute

\* .replace(microsecond=0) of parse_datetime, utc_now_iso, _format_epoch_ms
WholeMinutes(t) == t \div TicksPerMinute

\* _parse_iso / _iso_to_datetime of a stored timestamp
AtMinute(m) == m * TicksPerMinute

\* max(1, since_hours)
AtLeastOne(h) == IF h < 1 THEN 1 ELSE h

\* datetime.now(timezone.utc) - timedelta(hours=max(1, since_hours))
Cutoff(now, since_hours) == now - AtLeastOne(since_hours) * HourTicks

\* the characters of a timestamp or a country code and their byte values:
\* SQLite compares TEXT with memcmp (BINARY collation), Python str by code
\* point
DigitChars == <<"0", "1", "2", "3", "4", "5", "6", "7", "8", "9">>
CharCode(ch) ==
    CASE ch = "." -> 46
      [] ch = "C" -> 67
      [] ch = "J" -> 74
      [] ch = "L" -> 76
      [] ch = "P" -> 80
      [] ch = "Q" -> 81
      [] ch = "X" -> 88
      [] ch = "Z" -> 90
      [] ch = "c" -> 99
      [] OTHER -> 47 + (CHOOSE d \in 1..Len(DigitChars) : DigitChars[d] = ch)

\* the zero-padded, fixed-width date and time fields of isoformat()
Digits(n) ==
    << DigitChars[((n \div 1000) % 10) + 1], DigitChars[((n \div 100) % 10) + 1],
       DigitChars[((n \div 10) % 10) + 1], DigitChars[(n % 10) + 1] >>

\* occurred_at as the connectors store it: whole seconds, "Z" suffix
\* (datetime.replace(microsecond=0).isoformat().replace("+00:00", "Z"))
IsoWhole(m) == Digits(m) \o <<"Z">>

\* datetime.isoformat().replace("+00:00", "Z") of an instant that keeps its
\* sub-second part: the fraction is printed when it is not zero
IsoFormat(t) ==
    Digits(WholeMinutes(t))
      \o (IF t % TicksPerMinute = 0 THEN <<>>
          ELSE <<".", DigitChars[(((t % TicksPerMinute) * 10) \div TicksPerMinute) + 1]>>)
      \o <<"Z">>

\* a < b for TEXT values: the first differing byte decides, then the length
RECURSIVE TextLess(_, _)
TextLess(a, b) ==
    IF b = <<>> THEN FALSE
    ELSE IF a = <<>> THEN TRUE
    ELSE IF Head(a) # Head(b) THEN CharCode(Head(a)) < CharCode(Head(b))
    ELSE TextLess(Tail(a), Tail(b))

\* ------------------------------------------------------------ the rules

\* connectors.common.normalize_text
NormalizeTextCommon(s) == Strip(JoinSplit(BlankNonAlnum(Lower(s)), <<>>, FALSE))

\* `needle in haystack` for str
Contains(haystack, needle) ==
    \E i \in 0..(Len(haystack) - Len(needle)) :
        SubSeq(haystack, i + 1, i + Len(needle)) = needle

\* the service started at this minute; clock counts the ticks since
EpochMinute == MinutesPerHour * 30
WallClock(c) == AtMinute(EpochMinute) + c

\* pulse(window_hours=6, baseline_hours=24) and its `return pulse[:12]`
PulseWindowHours == 6
PulseBaselineHours == 24
PulseLimit == 12

\* round(a / b, 3) in thousandths, b > 0
RoundedThousandths(a, b) == (2 * 1000 * a + b) \div (2 * b)

\* delta_ratio of one country, in thousandths
DeltaRatio(recent_count, baseline_count) ==
    IF baseline_count <= 0 THEN 1000 * recent_count
    ELSE RoundedThousandths(recent_count - baseline_count, baseline_count)

\* the entries of pulse before the sort: one per country with recent rows
PulseEntries(rows, now, window_hours, baseline_hours) ==
    LET window_cutoff == IsoFormat(now - AtLeastOne(window_hours) * HourTicks)
        longer == IF window_hours + 1 > baseline_hours
                  THEN window_hours + 1 ELSE baseline_hours
        baseline_cutoff == IsoFormat(now - longer * HourTicks)
        recent(c) == Cardinality({r \in rows :
                        /\ r.country = c
                        /\ ~TextLess(IsoWhole(r.occurred_at), window_cutoff)})
        baseline(c) == Cardinality({r \in rows :
                        /\ r.country = c
                        /\ ~TextLess(IsoWhole(r.occurred_at), baseline_cutoff)
                        /\ TextLess(IsoWhole(r.occurred_at), window_cutoff)})
    IN {[country |-> c, recent_count |-> recent(c), baseline_count |-> baseline(c),
         delta_ratio |-> DeltaRatio(recent(c), baseline(c))] :
           c \in {r.country : r \in {x \in rows : recent(x.country) > 0}}}

\* a comes before b after pulse.sort(key=(delta_ratio, recent_count),
\* reverse=True): the sort is stable, equal keys stay in country order
PulseBefore(a, b) ==
    \/ a.delta_ratio > b.delta_ratio
    \/ a.delta_ratio = b.delta_ratio /\ a.recent_count > b.recent_count
    \/ /\ a.delta_ratio = b.delta_ratio
       /\ a.recent_count = b.recent_count
       /\ TextLess(a.country, b.country)

\* EventStore.pulse: the first PulseLimit entries
Pulse(rows, now, window_hours, baseline_hours) ==
    LET entries == PulseEntries(rows, now, window_hours, baseline_hours)
    IN {a \in entries :
          Cardinality({b \in entries : PulseBefore(b, a)}) < PulseLimit}

\* country_deltas.get(event.country, 0.0), in thousandths
CountryDelta(pulse, country) ==
    IF \E a \in pulse : a.country = country
    THEN (CHOOSE a \in pulse : a.country = country).delta_ratio
    ELSE 0

\* a mutant: the severity bound is exclusive
RuleMatchesAbove(rule, event) ==
    /\ event.severity > rule.severity_threshold
    /\ ~(rule.countries # {} /\ event.country \notin rule.countries)
    /\ ~(rule.regions # {} /\ event.region \notin rule.regions)
    /\ ~(rule.categories # {} /\ event.category \notin rule.categories)
    /\ rule.keywords # {} =>
          \E word \in rule.keywords :
              Contains(NormalizeTextCommon(event.title \o <<Space>> \o event.summary
                                             \o <<Space>> \o event.body_snippet),
                       NormalizeTextCommon(word))
    /\ rule.spike_detection =>
          ~(CountryDelta(Pulse(events, WallClock(clock), PulseWindowHours,
                               PulseBaselineHours), event.country) < 1000)

\* EventIngestionService._rule_matches; the pulse of a spike_detection rule
\* is read from the store when the rule is evaluated
RuleMatches(rule, event) ==
    /\ ~(event.severity < rule.severity_threshold)
    /\ ~(rule.countries # {} /\ event.country \notin rule.countries)
    /\ ~(rule.regions # {} /\ event.region \notin rule.regions)
    /\ ~(rule.categories # {} /\ event.category \notin rule.categories)
    /\ rule.keywords # {} =>
          \E word \in rule.keywords :
              Contains(NormalizeTextCommon(event.title \o <<Space>> \o event.summary
                                             \o <<Space>> \o event.body_snippet),
                       NormalizeTextCommon(word))
    /\ rule.spike_detection =>
          ~(CountryDelta(Pulse(events, WallClock(clock), PulseWindowHours,
                               PulseBaselineHours), event.country) < 1000)

\* a mutant: the loop does not skip the rules that are not enabled
RECURSIVE PairsFromAnyRule(_, _, _)
PairsFromAnyRule(batch, i, j) ==
    IF i > Len(Rules) THEN <<>>
    ELSE IF j > Len(batch) THEN PairsFromAnyRule(batch, i + 1, 1)
    ELSE IF RuleMatches(Rules[i], batch[j])
         THEN <<[rule_id |-> Rules[i].id, event_id |-> batch[j].id]>>
                 \o PairsFromAnyRule(batch, i, j + 1)
         ELSE PairsFromAnyRule(batch, i, j + 1)

\* the (rule, event) pairs in the order of the two loops of _evaluate_rules
RECURSIVE PairsFrom(_, _, _)
PairsFrom(batch, i, j) ==
    IF i > Len(Rules) THEN <<>>
    ELSE IF j > Len(batch) THEN PairsFrom(batch, i + 1, 1)
    ELSE IF Rules[i].enabled /\ RuleMatches(Rules[i], batch[j])
         THEN <<[rule_id |-> Rules[i].id, event_id |-> batch[j].id]>>
                 \o PairsFrom(batch, i, j + 1)
         ELSE PairsFrom(batch, i, j + 1)

MatchingPairs(batch) == IF batch = <<>> THEN <<>> ELSE PairsFrom(batch, 1, 1)

\* EventStore.add_alert_event: INSERT OR IGNORE under UNIQUE(rule_id, event_id)
AlertExists(alerts, pair) ==
    \E a \in alerts : a.rule_id = pair.rule_id /\ a.event_id = pair.event_id

\* a mutant: INSERT OR REPLACE, a pair matched again is fired again
AddAlertEventReplace(alerts, pair, now) ==
    {a \in alerts : ~(a.rule_id = pair.rule_id /\ a.event_id = pair.event_id)}
      \cup {[id |-> <<pair.rule_id, pair.event_id>>,
              rule_id |-> pair.rule_id, event_id |-> pair.event_id,
              status |-> "new", fired_at |-> now,
              acked_at |-> NoTime, resolved_at |-> NoTime]}

\* EventStore.add_alert_event: the table afterwards
AddAlertEvent(alerts, pair, now) ==
    IF AlertExists(alerts, pair) THEN alerts
    ELSE alerts \cup {[id |-> <<pair.rule_id, pair.event_id>>,
                       rule_id |-> pair.rule_id, event_id |-> pair.event_id,
                       status |-> "new", fired_at |-> now,
                       acked_at |-> NoTime, resolved_at |-> NoTime]}

\* EventStore.add_alert_event: return cursor.rowcount > 0
AddAlertEventCreated(alerts, pair) == ~AlertExists(alerts, pair)

\* a mutant: fired = 1 for fired += 1
FiredSetToOne(fired, created) == IF created THEN 1 ELSE fired

\* _evaluate_rules: if created: fired += 1
Fired(fired, created) == IF created THEN fired + 1 ELSE fired

\* the alert_events table and the `fired` counter after the first k pairs
RECURSIVE EvaluatePrefix(_, _, _, _)
EvaluatePrefix(alerts, pairs, k, now) ==
    IF k = 0 THEN [alerts |-> alerts, fired |-> 0]
    ELSE LET before == EvaluatePrefix(alerts, pairs, k - 1, now)
             created == AddAlertEventCreated(before.alerts, pairs[k])
         IN [alerts |-> AddAlertEvent(before.alerts, pairs[k], now),
             fired  |-> Fired(before.fired, created)]

\* a mutant: acked_at = :resolved_at without the COALESCE
SetStatusOverwriteAck(a, status, now) ==
    IF status = "acked"
    THEN [a EXCEPT !.status = "acked", !.acked_at = now]
    ELSE [a EXCEPT !.status = "resolved", !.resolved_at = now, !.acked_at = now]

\* the SET clause of update_alert_event_status
SetStatus(a, status, now) ==
    IF status = "acked"
    THEN [a EXCEPT !.status = "acked", !.acked_at = now]
    ELSE [a EXCEPT !.status = "resolved", !.resolved_at = now,
                   !.acked_at = IF a.acked_at = NoTime THEN now ELSE a.acked_at]

\* a mutant: the status is not looked at
UpdateAlertEventStatusAny(alerts, alert_event_id, status, now) ==
    {IF a.id = alert_event_id THEN SetStatus(a, status, now) ELSE a : a \in alerts}

\* EventStore.update_alert_event_status: the table afterwards
UpdateAlertEventStatus(alerts, alert_event_id, status, now) ==
    IF status \notin {"acked", "resolved"} THEN alerts
    ELSE {IF a.id = alert_event_id THEN SetStatus(a, status, now) ELSE a : a \in alerts}

\* EventStore.update_alert_event_status: False for a status it does not
\* take, cursor.rowcount > 0 otherwise
UpdateAlertEventStatusReturns(alerts, alert_event_id, status) ==
    status \in {"acked", "resolved"} /\ \E a \in alerts : a.id = alert_event_id

\* the status words as texts
AckedText == <<"a", "c", "k", "e", "d">>
ResolvedText == <<"r", "e", "s", "o", "l", "v", "e", "d">>
NewText == <<"n", "e", "w">>

\* safe_status = status.strip().lower()
SafeStatus(status) == Lower(Strip(status))

\* the word a safe status spells
StatusWord(safe) ==
    CASE safe = AckedText -> "acked"
      [] safe = ResolvedText -> "resolved"
      [] safe = NewText -> "new"
      [] OTHER -> "other"

\* --------------------------------------------------------- the connectors

\* every sequence over S of length at most n
SeqsUpTo(S, n) == UNION {[1..k -> S] : k \in 0..n}

\* ConnectorResult of a fetch: the events built from the feed records, or
\* result.error with no events (fetch catches what the download raises)
FetchResults(c) ==
    {[items |-> s, error |-> None] : s \in SeqsUpTo(FeedItems(c), MaxFetch)}
      \cup {[items |-> <<>>, error |-> "fetch failed"]}

\* a mutant: ingested_at is taken from the feed's publication time
IngestedAtFromFeed(item, now) == item.occurred_at \div MinutesPerHour

\* WorldEvent.ingested_at: Field(default_factory=utc_now_iso)
IngestedAtDefault(item, now) == now

\* WorldEvent(...) as a connector builds it: id from uuid4, ingested_at and
\* updated_at from the clock, cluster_id = text_hash("<connector>|title|hour")
BuiltEvent(item, c, id, now) ==
    [id |-> id, external_id |-> item.external_id, source |-> c,
     source_url |-> item.source_url, title |-> item.title,
     summary |-> item.summary, body_snippet |-> item.body_snippet,
     category |-> item.category, country |-> item.country,
     region |-> item.region, severity |-> item.severity,
     occurred_at |-> item.occurred_at,
     ingested_at |-> IngestedAtDefault(item, now), updated_at |-> now,
     cluster_id |-> <<c, NormalizeTextCommon(item.title),
                      BucketHour(item.occurred_at)>>]

\* normalize_text(event.title)[:80]
ClusterTitleChars == 80

\* `event.country or "global"`
DefaultCountry == <<"g">>

\* a mutant: the whole normalized title is the key
TitleKeyWhole(title) == NormalizeTextCommon(title)

\* title_key = normalize_text(event.title)[:80]
TitleKey(title) ==
    LET norm == NormalizeTextCommon(title)
    IN SubSeq(norm, 1, IF Len(norm) < ClusterTitleChars THEN Len(norm)
                       ELSE ClusterTitleChars)

\* text_hash(f"{title_key}|{country_key}|{bucket}")[:20]; the hash is taken
\* as one-to-one on the three parts
ClusterId(event) ==
    <<TitleKey(event.title),
      NormalizeTextCommon(IF event.country = <<>> THEN DefaultCountry ELSE event.country),
      BucketHour(event.occurred_at)>>

\* _normalize_clusters: every event of the list is re-keyed and stamped
NormalizeClusters(batch, now) ==
    [i \in 1..Len(batch) |->
       [batch[i] EXCEPT !.cluster_id = ClusterId(batch[i]), !.updated_at = now]]

\* an event of a connector's result after _normalize_clusters
MakeEvent(item, c, id, now) == NormalizeClusters(<<BuiltEvent(item, c, id, now)>>, now)[1]

MakeEvents(items, c, firstId, now) ==
    [i \in 1..Len(items) |-> MakeEvent(items[i], c, firstId + i - 1, now)]

\* refresh_minutes, in clock units
RefreshMinutes == 10

\* EventIngestionService._next_run_at
NextRunAt(now) == now + RefreshMinutes

\* max(0, value)
AtLeastZero(n) == IF n < 0 THEN 0 ELSE n

\* the VALUES clause of set_connector_status
StatusRow(name, enabled, success, items_fetched, duration_ms, next_run_at, error_message, now) ==
    [name |-> name, enabled |-> enabled,
     last_success_at |-> IF success THEN now ELSE NoTime,
     last_error_at |-> IF ~success THEN now ELSE NoTime,
     last_error |-> error_message, next_run_at |-> next_run_at,
     items_fetched |-> AtLeastZero(items_fetched),
     last_duration_ms |-> AtLeastZero(duration_ms), updated_at |-> now]

\* a mutant: the status row is written for successful fetches only
SetConnectorStatusOnSuccess(table, name, enabled, success, items_fetched, duration_ms, next_run_at, error_message, now) ==
    IF ~success THEN table
    ELSE (table \ {r \in table : r.name = name}) \cup
           {StatusRow(name, enabled, success, items_fetched, duration_ms,
                      next_run_at, error_message, now)}

\* a mutant: INSERT OR REPLACE, the row of the name is replaced whole
SetConnectorStatusReplace(table, name, enabled, success, items_fetched, duration_ms, next_run_at, error_message, now) ==
    (table \ {r \in table : r.name = name}) \cup
      {StatusRow(name, enabled, success, items_fetched, duration_ms,
                 next_run_at, error_message, now)}

\* EventStore.set_connector_status: the table afterwards (ON CONFLICT(name)
\* DO UPDATE keeps last_success_at / last_error_at when the new one is NULL)
SetConnectorStatus(table, name, enabled, success, items_fetched, duration_ms, next_run_at, error_message, now) ==
    LET olds == {r \in table : r.name = name}
        new == StatusRow(name, enabled, success, items_fetched, duration_ms,
                         next_run_at, error_message, now)
        kept(field) == IF olds = {} THEN NoTime ELSE (CHOOSE r \in olds : TRUE)[field]
    IN (table \ olds) \cup
       {[new EXCEPT
           !.last_success_at = IF @ # NoTime THEN @ ELSE kept("last_success_at"),
           !.last_error_at = IF @ # NoTime THEN @ ELSE kept("last_error_at")]}

\* EventStore.add_ingestion_log: the row appended
LogRow(level, connector, now) ==
    [created_at |-> now, level |-> level, connector |-> connector]

\* ---------------------------------------------------------- orchestrator
EmptyFrame == [force |-> FALSE, acquired |-> FALSE, ci |-> 1, batch |-> <<>>,
               summaries |-> <<>>, ingested |-> 0, fired |-> 0, failed |-> None,
               failAt |-> 0]
NoResult == [status |-> "none", ingested |-> 0, alerts_fired |-> 0]
NoReply == [op |-> "none"]
NoService == [name |-> "none"]
NoStoreCalls == [lock |-> NoThread, pc |-> [t \in Threads |-> "idle"],
                 op |-> [t \in Threads |-> "none"]]

NoRequest == [pc |-> "idle"]

\* the force argument each caller passes
ForceOf(t) == IF t = "scheduler" THEN {FALSE} ELSE {TRUE}

BodyPcs == {"start", "connectors", "upsert", "evaluate", "finish", "audit",
            "handler", "finally", "release"}
InBody(t) == pc[t] \in BodyPcs

Init ==
    /\ runLock = NoThread
    /\ pc = [t \in Threads |-> "idle"]
    /\ frame = [t \in Threads |-> EmptyFrame]
    /\ result = [t \in Threads |-> NoResult]
    /\ running = FALSE
    /\ lastStarted = NoTime
    /\ lastFinished = NoTime
    /\ lastError = None
    /\ lastIngested = 0
    /\ clock = 0
    /\ nextId = 1
    /\ calls = 0
    /\ envSteps = 0
    /\ events = {}
    /\ alertEvents = {}
    /\ connectorStatus = {}
    /\ ingestionLogs = <<>>
    /\ auditLogs = {}
    /\ delivered = {}
    /\ reply = NoReply
    /\ svc = NoService
    /\ db = NoStoreCalls
    /\ http = NoRequest

\* a store call may raise (sqlite3.Error) while the budget of environment
\* steps lasts
CanFail == envSteps < MaxEnvSteps
Charge(fault) == envSteps' = IF fault THEN envSteps + 1 ELSE envSteps

\* a mutant: a forced run skips the single-flight guard
RunLockAcquireUnlessForced(force) == force \/ runLock = NoThread

\* a mutant: the lock is re-entrant, every call gets it
RunLockAcquireAlways(force) == TRUE

\* self._run_lock.acquire(blocking=False)
RunLockAcquire(force) == runLock = NoThread

\* ingest(), lines 96-98: the guard
CallIngest(t) ==
    /\ pc[t] \in {"idle", "returned"}
    /\ calls < MaxCalls
    /\ calls' = calls + 1
    /\ \E f \in ForceOf(t) :
         IF RunLockAcquire(f)
         THEN /\ runLock' = t
              /\ pc' = [pc EXCEPT ![t] = "start"]
              /\ frame' = [frame EXCEPT ![t] =
                             [EmptyFrame EXCEPT !.force = f, !.acquired = TRUE]]
              /\ result' = [result EXCEPT ![t] = NoResult]
         ELSE /\ runLock' = runLock
              /\ pc' = [pc EXCEPT ![t] = "returned"]
              /\ frame' = [frame EXCEPT ![t] = [EmptyFrame EXCEPT !.force = f]]
              /\ result' = [result EXCEPT ![t] =
                              [status |-> "busy", ingested |-> 0, alerts_fired |-> 0]]
    /\ UNCHANGED <<reply, other_vars, status_vars, store_vars, clock, nextId, envSteps, delivered>>

\* a mutant: the new pass keeps the last error of the previous one
StartErrorKept(previous) == previous

\* self._last_error = None
StartError(previous) == None

\* ingest(), lines 100-105
Start(t) ==
    /\ pc[t] = "start"
    /\ running' = TRUE
    /\ lastStarted' = clock
    /\ lastError' = StartError(lastError)
    /\ pc' = [pc EXCEPT ![t] = "connectors"]
    /\ UNCHANGED <<reply, other_vars, runLock, frame, result, lastFinished, lastIngested, clock,
                   nextId, calls, envSteps, store_vars, delivered>>

ConnectorNames == {Connectors[i] : i \in 1..Len(Connectors)}

\* a mutant: the batch is upserted as soon as one connector has been processed
AfterConnectorFirst(i) == "upsert"

\* where the connector loop goes after connector number i
AfterConnector(i) == IF i >= Len(Connectors) THEN "upsert" ELSE "connectors"

\* a mutant: a connector's error ends the pass
AfterFetchAbortOnError(i, error) ==
    IF error # None THEN "handler" ELSE AfterConnector(i)

\* ingest(), lines 127-158: result.error picks the log level and goes into
\* the summary; the loop goes on to the next connector either way
AfterFetch(i, error) == AfterConnector(i)

\* what each connector may answer to fetch()
AllFeeds == [c \in ConnectorNames |-> FetchResults(c)]

\* ingest(), lines 107-158: one iteration of the connector loop, feeds[c]
\* being what connector c may answer.  A store write that raises sends the
\* pass to the except block.
ConnectorStepOn(t, feeds) ==
    /\ pc[t] = "connectors"
    /\ LET i == frame[t].ci
           c == Connectors[i]
       IN IF ~ConnectorEnabled(c)
          THEN \E statusFails \in BOOLEAN :
                 /\ statusFails => CanFail
                 /\ Charge(statusFails)
                 /\ IF statusFails
                    THEN /\ connectorStatus' = connectorStatus
                         /\ pc' = [pc EXCEPT ![t] = "handler"]
                         /\ frame' = [frame EXCEPT ![t].failed = "set_connector_status"]
                    ELSE /\ connectorStatus' =
                               SetConnectorStatus(connectorStatus, c, FALSE, FALSE, 0, 0,
                                                  NextRunAt(clock),
                                                  "connector disabled", clock)
                         /\ pc' = [pc EXCEPT ![t] = AfterConnector(i)]
                         /\ frame' = [frame EXCEPT ![t].ci = i + 1]
                 /\ UNCHANGED <<ingestionLogs, nextId>>
          ELSE \E res \in feeds[c], fails \in {"none", "status", "log"} :
                 LET fetched == MakeEvents(res.items, c, nextId, clock)
                     success == res.error = None
                     written == SetConnectorStatus(connectorStatus, c, TRUE, success,
                                                   Len(fetched), 0, NextRunAt(clock),
                                                   res.error, clock)
                     withBatch == [frame[t] EXCEPT !.batch = @ \o fetched]
                 IN /\ fails # "none" => CanFail
                    /\ Charge(fails # "none")
                    /\ nextId + Len(fetched) <= MaxEvents + 1
                    /\ nextId' = nextId + Len(fetched)
                    /\ connectorStatus' =
                         IF fails = "status" THEN connectorStatus
                         ELSE written
                    /\ ingestionLogs' =
                         IF fails = "none"
                         THEN Append(ingestionLogs,
                                     LogRow(IF success THEN "INFO" ELSE "ERROR", c, clock))
                         ELSE ingestionLogs
                    /\ IF fails = "none"
                       THEN /\ pc' = [pc EXCEPT ![t] = AfterFetch(i, res.error)]
                            /\ frame' = [frame EXCEPT ![t] =
                                  [withBatch EXCEPT !.ci = i + 1,
                                                    !.summaries =
                                      Append(@, [name |-> c, items |-> Len(fetched),
                                                 error |-> res.error])]]
                       ELSE /\ pc' = [pc EXCEPT ![t] = "handler"]
                            /\ frame' = [frame EXCEPT ![t] =
                                  [withBatch EXCEPT !.failed =
                                      IF fails = "status" THEN "set_connector_status"
                                      ELSE "add_ingestion_log"]]
    /\ UNCHANGED <<reply, other_vars, runLock, result, status_vars, clock, calls,
                   events, alertEvents, auditLogs, delivered>>

ConnectorStep(t) == ConnectorStepOn(t, AllFeeds)

\* ingest(), line 160: the batch upsert; failAt = k says the k-th statement
\* raised, failAt = Len(batch) + 1 that the commit did
Upsert(t) ==
    /\ pc[t] = "upsert"
    /\ LET batch == frame[t].batch
       IN \E failAt \in 0..(IF batch = <<>> THEN 0 ELSE Len(batch) + 1) :
            /\ failAt # 0 => CanFail
            /\ Charge(failAt # 0)
            /\ events' = UpsertEvents(events, batch, failAt)
            /\ IF failAt = 0
               THEN /\ pc' = [pc EXCEPT ![t] = "evaluate"]
                    /\ frame' = [frame EXCEPT ![t].ingested = Len(batch)]
               ELSE /\ pc' = [pc EXCEPT ![t] = "handler"]
                    /\ frame' = [frame EXCEPT ![t].failed = "upsert_events",
                                              ![t].failAt = failAt]
    /\ UNCHANGED <<reply, other_vars, runLock, result, status_vars, clock, nextId, calls,
                   alertEvents, connectorStatus, ingestionLogs, auditLogs, delivered>>

\* ingest(), line 161: _evaluate_rules over the batch; failAt = k says the
\* k-th add_alert_event raised, the ones before it are committed
Evaluate(t) ==
    /\ pc[t] = "evaluate"
    /\ LET batch == frame[t].batch
           pairs == MatchingPairs(batch)
       IN \E failAt \in 0..Len(pairs) :
            LET done == IF failAt = 0 THEN Len(pairs) ELSE failAt - 1
                out  == EvaluatePrefix(alertEvents, pairs, done, clock)
            IN /\ failAt # 0 => CanFail
               /\ Charge(failAt # 0)
               /\ alertEvents' = out.alerts
               /\ IF failAt = 0
                  THEN /\ pc' = [pc EXCEPT ![t] = "finish"]
                       /\ frame' = [frame EXCEPT ![t].fired = out.fired]
                  ELSE /\ pc' = [pc EXCEPT ![t] = "handler"]
                       /\ frame' = [frame EXCEPT ![t].failed = "add_alert_event"]
    /\ delivered' = delivered \cup
          {[id |-> frame[t].batch[i].id, dedupe_hash |-> DedupeHash(frame[t].batch[i]),
            ingested_at |-> frame[t].batch[i].ingested_at] :
              i \in 1..Len(frame[t].batch)}
    /\ UNCHANGED <<reply, other_vars, runLock, result, status_vars, clock, nextId, calls,
                   events, connectorStatus, ingestionLogs, auditLogs>>

\* ingest(), lines 163-165
Finish(t) ==
    /\ pc[t] = "finish"
    /\ lastIngested' = frame[t].ingested
    /\ lastFinished' = clock
    /\ pc' = [pc EXCEPT ![t] = "audit"]
    /\ UNCHANGED <<reply, other_vars, runLock, frame, result, running, lastStarted, lastError, clock,
                   nextId, calls, envSteps, store_vars, delivered>>

\* EventStore.add_audit_log: id = sha1(f"{utc_now_iso()}|{action}|{actor}")
AuditId(now, action, actor) == <<now, action, actor>>

\* audit_logs.id is the PRIMARY KEY and the INSERT is a plain INSERT
AuditInsertConflicts(logs, now, action, actor) ==
    \E a \in logs : a.id = AuditId(now, action, actor)

\* ingest(), lines 166-183: the job.ingest audit row, then the "ok" summary
Audit(t) ==
    /\ pc[t] = "audit"
    /\ \E fails \in BOOLEAN :
         /\ LET conflict == AuditInsertConflicts(auditLogs, clock, "job.ingest", "system")
            IN /\ conflict => fails
               /\ (fails /\ ~conflict) => CanFail
               /\ Charge(fails /\ ~conflict)
         /\ IF fails
            THEN /\ auditLogs' = auditLogs
                 /\ result' = result
                 /\ pc' = [pc EXCEPT ![t] = "handler"]
                 /\ frame' = [frame EXCEPT ![t].failed = "add_audit_log"]
            ELSE /\ auditLogs' = auditLogs \cup
                       {[id |-> AuditId(clock, "job.ingest", "system"),
                         action |-> "job.ingest", force |-> frame[t].force,
                         ingested |-> frame[t].ingested,
                         alerts_fired |-> frame[t].fired,
                         connector_count |-> Len(frame[t].summaries), time |-> clock]}
                 /\ result' = [result EXCEPT ![t] =
                       [status |-> "ok", ingested |-> frame[t].ingested,
                        alerts_fired |-> frame[t].fired]]
                 /\ pc' = [pc EXCEPT ![t] = "finally"]
                 /\ frame' = frame
    /\ UNCHANGED <<reply, other_vars, runLock, status_vars, clock, nextId, calls, events,
                   alertEvents, connectorStatus, ingestionLogs, delivered>>

\* ingest(), lines 184-194: what the except block gives the caller; the
\* add_ingestion_log call in it is not guarded, so when it raises the
\* exception leaves ingest()
HandlerResult(logFails) == IF logFails THEN "raised" ELSE "error"

\* ingest(), lines 184-194: the except block
Handler(t) ==
    /\ pc[t] = "handler"
    /\ lastError' = frame[t].failed
    /\ lastFinished' = clock
    /\ \E logFails \in BOOLEAN :
         /\ logFails => CanFail
         /\ Charge(logFails)
         /\ ingestionLogs' = IF logFails THEN ingestionLogs
                             ELSE Append(ingestionLogs, LogRow("ERROR", "scheduler", clock))
         /\ result' = [result EXCEPT ![t] =
               [status |-> HandlerResult(logFails), ingested |-> 0, alerts_fired |-> 0]]
    /\ pc' = [pc EXCEPT ![t] = "finally"]
    /\ UNCHANGED <<reply, other_vars, runLock, frame, running, lastStarted, lastIngested, clock, nextId,
                   calls, events, alertEvents, connectorStatus,
                   auditLogs, delivered>>

\* ingest(), lines 195-197: finally, the state-lock section
Finally(t) ==
    /\ pc[t] = "finally"
    /\ running' = FALSE
    /\ pc' = [pc EXCEPT ![t] = "release"]
    /\ UNCHANGED <<reply, other_vars, runLock, frame, result, lastStarted, lastFinished, lastError,
                   lastIngested, clock, nextId, calls, envSteps, store_vars,
                   delivered>>

\* a mutant: the lock is released on the success path only
RunLockReleaseOnOk(t, status) == IF status = "ok" THEN NoThread ELSE t

\* ingest(), line 198: self._run_lock.release() in the finally block
RunLockRelease(t, status) == NoThread

Release(t) ==
    /\ pc[t] = "release"
    /\ runLock' = RunLockRelease(t, result[t].status)
    /\ pc' = [pc EXCEPT ![t] = "returned"]
    /\ frame' = [frame EXCEPT ![t] = EmptyFrame]
    /\ UNCHANGED <<reply, other_vars, result, status_vars, clock, nextId, calls, envSteps,
                   store_vars, delivered>>

\* time passes
Tick ==
    /\ envSteps < MaxEnvSteps
    /\ envSteps' = envSteps + 1
    /\ clock' = clock + 1
    /\ UNCHANGED <<reply, other_vars, runLock, pc, frame, result, status_vars, nextId, calls,
                   store_vars, delivered>>

\* POST /alerts/inbox/{id}/ack
AckAlert ==
    /\ envSteps < MaxEnvSteps
    /\ \E a \in alertEvents :
         alertEvents' = UpdateAlertEventStatus(alertEvents, a.id, "acked", clock)
    /\ envSteps' = envSteps + 1
    /\ UNCHANGED <<reply, other_vars, runLock, pc, frame, result, status_vars, clock, nextId, calls,
                   events, connectorStatus, ingestionLogs, auditLogs, delivered>>

\* POST /alerts/inbox/{id}/resolve
ResolveAlert ==
    /\ envSteps < MaxEnvSteps
    /\ \E a \in alertEvents :
         alertEvents' = UpdateAlertEventStatus(alertEvents, a.id, "resolved", clock)
    /\ envSteps' = envSteps + 1
    /\ UNCHANGED <<reply, other_vars, runLock, pc, frame, result, status_vars, clock, nextId, calls,
                   events, connectorStatus, ingestionLogs, auditLogs, delivered>>

\* the steps of a pass that holds the run lock
PassStep(t) ==
    \/ Start(t) \/ ConnectorStep(t) \/ Upsert(t) \/ Evaluate(t) \/ Finish(t)
    \/ Audit(t) \/ Handler(t) \/ Finally(t) \/ Release(t)

Next ==
    \/ \E t \in Threads : CallIngest(t)
    \/ \E t \in Threads : Start(t)
    \/ \E t \in Threads : ConnectorStep(t)
    \/ \E t \in Threads : Upsert(t)
    \/ \E t \in Threads : Evaluate(t)
    \/ \E t \in Threads : Finish(t)
    \/ \E t \in Threads : Audit(t)
    \/ \E t \in Threads : Handler(t)
    \/ \E t \in Threads : Finally(t)
    \/ \E t \in Threads : Release(t)
    \/ Tick
    \/ AckAlert
    \/ ResolveAlert

Spec == Init /\ [][Next]_vars

\* the feeds on a day with one report: a connector finds the earthquake
\* report a2, finds nothing, or fails
ExampleFeeds ==
    [c \in ConnectorNames |->
        {res \in FetchResults(c) :
            \A i \in 1..Len(res.items) : res.items[i].external_id = "a2"}]

\* the steps of a pass over the feeds of the example
ExamplePassStep(t) ==
    \/ Start(t) \/ ConnectorStepOn(t, ExampleFeeds) \/ Upsert(t) \/ Evaluate(t)
    \/ Finish(t) \/ Audit(t) \/ Handler(t) \/ Finally(t) \/ Release(t)

\* the passes alone, with the store faults that can stop them
NextPass ==
    \/ \E t \in Threads : CallIngest(t)
    \/ \E t \in Threads : ExamplePassStep(t)

\* the threads that run ingest() are scheduled: a pass that can take a step
\* eventually takes one
FairSpec ==
    Init /\ [][NextPass]_vars /\ \A t \in Threads : WF_vars(ExamplePassStep(t))

TypeOK ==
    /\ runLock \in Threads \cup {NoThread}
    /\ \A t \in Threads : pc[t] \in BodyPcs \cup {"idle", "returned"}
    /\ running \in BOOLEAN
    /\ clock \in 0..MaxEnvSteps
    /\ envSteps \in 0..MaxEnvSteps
    /\ calls \in 0..MaxCalls

\* ------------------------------------------------- the connectors' fetch

\* the instants at which fetch and the queries are called, and their windows
NowChoices == {AtMinute(300), AtMinute(300) + 1}
SinceChoices == {1, 2, 3}

\* what an upstream feed may hold at instant now: records dated now, at the
\* one-hour cutoff, one tick older, three hours old, with a date that does
\* not parse, and a record without id or title
FeedRecords(now) ==
    {[valid |-> TRUE, at |-> now - age] :
        age \in {0, HourTicks, HourTicks + 1, 3 * HourTicks}}
      \cup {[valid |-> TRUE, at |-> NoTime], [valid |-> FALSE, at |-> now]}

\* what fetcher.get_json / get_xml gives: a parsed payload, or it raises
Payloads(now) ==
    {[ok |-> TRUE, records |-> s] : s \in SeqsUpTo(FeedRecords(now), MaxFetch)}
      \cup {[ok |-> FALSE, records |-> <<>>]}

\* parse_datetime / _format_epoch_ms / _parse_pub_datetime: the record's
\* date cut to the stored precision, utc_now_iso() when it does not parse
OccurredAt(rec, now) ==
    IF rec.at = NoTime THEN WholeMinutes(now) ELSE WholeMinutes(rec.at)

IsValid(rec) == rec.valid

\* UsgsConnector._to_event over the features: no cutoff is applied
UsgsEvents(records, now) ==
    LET kept == SelectSeq(records, IsValid)
    IN [k \in 1..Len(kept) |-> [occurred_at |-> OccurredAt(kept[k], now)]]

\* EonetConnector._to_event, GdeltConnector._to_event and
\* RssConnector._parse_feed: records older than the cutoff are dropped
WindowedEvents(records, now, since_hours) ==
    LET InWindow(rec) ==
            /\ rec.valid
            /\ ~(AtMinute(OccurredAt(rec, now)) < Cutoff(now, since_hours))
        kept == SelectSeq(records, InWindow)
    IN [k \in 1..Len(kept) |-> [occurred_at |-> OccurredAt(kept[k], now)]]

\* UsgsConnector.fetch
UsgsFetchResult(now, since_hours, payload) ==
    IF payload.ok
    THEN [events |-> UsgsEvents(payload.records, now), error |-> None]
    ELSE [events |-> <<>>, error |-> "fetch failed"]

\* EonetConnector.fetch, GdeltConnector.fetch
WindowedFetchResult(now, since_hours, payload) ==
    IF payload.ok
    THEN [events |-> WindowedEvents(payload.records, now, since_hours),
          error |-> None]
    ELSE [events |-> <<>>, error |-> "fetch failed"]

\* AcledConnector.fetch, MarketOverlayConnector.fetch
OptionalFetchResult == [events |-> <<>>, error |-> "not configured"]

\* the configured RSS sources, each with its urls
RssSources == << <<"u1", "u2">>, <<"u3">> >>
RssUrls == {"u1", "u2", "u3"}

\* RssConnector._fetch_source from url number k on: the first url that
\* yields events wins; otherwise no events, and an error if a url raised
RECURSIVE RssFetchSource(_, _, _, _, _, _)
RssFetchSource(urls, k, outcomes, now, since_hours, raised) ==
    IF k > Len(urls)
    THEN [events |-> <<>>, error |-> IF raised THEN "fetch failed" ELSE None]
    ELSE LET o == outcomes[urls[k]]
             found == WindowedEvents(o.records, now, since_hours)
         IN IF o.ok /\ found # <<>>
            THEN [events |-> found, error |-> None]
            ELSE RssFetchSource(urls, k + 1, outcomes, now, since_hours,
                                raised \/ ~o.ok)

\* RssConnector.fetch over the sources from number j on: the events of
\* every source are collected, and so are the errors
RECURSIVE RssFetchFrom(_, _, _, _)
RssFetchFrom(j, outcomes, now, since_hours) ==
    IF j > Len(RssSources)
    THEN [events |-> <<>>, error |-> None]
    ELSE LET one == RssFetchSource(RssSources[j], 1, outcomes, now, since_hours, FALSE)
             rest == RssFetchFrom(j + 1, outcomes, now, since_hours)
         IN [events |-> one.events \o rest.events,
             error |-> IF one.error # None THEN one.error ELSE rest.error]

RssFetchResult(now, since_hours, outcomes) == RssFetchFrom(1, outcomes, now, since_hours)

\* what a fetch call leaves in reply
FetchReply(name, now, since_hours, res) ==
    [op |-> "fetch", name |-> name, now |-> now, since_hours |-> since_hours,
     events |-> res.events, error |-> res.error]

UsgsFetch ==
    /\ \E now \in NowChoices, since_hours \in SinceChoices :
         \E payload \in Payloads(now) :
            reply' = FetchReply("USGS Earthquakes", now, since_hours,
                                UsgsFetchResult(now, since_hours, payload))
    /\ UNCHANGED <<ingest_vars, other_vars>>

EonetFetch ==
    /\ \E now \in NowChoices, since_hours \in SinceChoices :
         \E payload \in Payloads(now) :
            reply' = FetchReply("NASA EONET", now, since_hours,
                                WindowedFetchResult(now, since_hours, payload))
    /\ UNCHANGED <<ingest_vars, other_vars>>

GdeltFetch ==
    /\ \E now \in NowChoices, since_hours \in SinceChoices :
         \E payload \in Payloads(now) :
            reply' = FetchReply("GDELT", now, since_hours,
                                WindowedFetchResult(now, since_hours, payload))
    /\ UNCHANGED <<ingest_vars, other_vars>>

RssFetch ==
    /\ \E now \in NowChoices, since_hours \in SinceChoices :
         \E outcomes \in [RssUrls -> Payloads(now)] :
            reply' = FetchReply("RSS", now, since_hours,
                                RssFetchResult(now, since_hours, outcomes))
    /\ UNCHANGED <<ingest_vars, other_vars>>

OptionalFetch ==
    /\ \E now \in NowChoices, since_hours \in SinceChoices :
         reply' = FetchReply("ACLED", now, since_hours, OptionalFetchResult)
    /\ UNCHANGED <<ingest_vars, other_vars>>

FetchNext ==
    \/ UsgsFetch
    \/ EonetFetch
    \/ GdeltFetch
    \/ RssFetch
    \/ OptionalFetch

\* the connectors called on their own, over every feed content
FetchSpec == Init /\ [][FetchNext]_vars

\* ------------------------------------------------- the alert store's API

MaxStoreCalls == 4     \* direct calls of the alert store in one behaviour

\* the event ids and alert ids the callers pass
StoreEventIds == {1, 2}
StorePairs ==
    {[rule_id |-> Rules[i].id, event_id |-> e] : i \in 1..Len(Rules), e \in StoreEventIds}

\* EventStore.add_alert_event(AlertEvent(rule_id, event_id, status="new"))
StoreAddAlertEvent ==
    /\ envSteps < MaxStoreCalls
    /\ envSteps' = envSteps + 1
    /\ \E pair \in StorePairs :
         /\ alertEvents' = AddAlertEvent(alertEvents, pair, clock)
         /\ reply' = [op |-> "add_alert_event", n |-> envSteps + 1,
                      rule_id |-> pair.rule_id, event_id |-> pair.event_id,
                      value |-> AddAlertEventCreated(alertEvents, pair)]
    /\ UNCHANGED <<runLock, pc, frame, result, status_vars, clock, nextId, calls,
                   events, connectorStatus, ingestionLogs, auditLogs, delivered,
                   other_vars>>

\* the status arguments the callers pass: the two words, as they are and
\* with blanks and capitals, "new", a word the store does not know, nothing
StatusTexts ==
    {AckedText, ResolvedText, NewText,
     <<" ", "A", "c", "k", "e", "d", " ">>,
     <<"R", "e", "s", "o", "l", "v", "e", "d">>,
     <<"a", "c", "k">>, <<>>}

\* EventStore.update_alert_event_status(alert_event_id, status)
StoreUpdateStatus ==
    /\ envSteps < MaxStoreCalls
    /\ envSteps' = envSteps + 1
    /\ \E pair \in StorePairs, requested \in StatusTexts :
         LET id == <<pair.rule_id, pair.event_id>>
             status == StatusWord(SafeStatus(requested))
         IN /\ alertEvents' = UpdateAlertEventStatus(alertEvents, id, status, clock)
            /\ reply' = [op |-> "update_alert_event_status", n |-> envSteps + 1,
                         id |-> id, requested |-> requested, status |-> status,
                         value |-> UpdateAlertEventStatusReturns(alertEvents, id, status)]
    /\ UNCHANGED <<runLock, pc, frame, result, status_vars, clock, nextId, calls,
                   events, connectorStatus, ingestionLogs, auditLogs, delivered,
                   other_vars>>

\* time passes between two calls
StoreTick ==
    /\ envSteps < MaxStoreCalls
    /\ envSteps' = envSteps + 1
    /\ clock' = clock + 1
    /\ UNCHANGED <<runLock, pc, frame, result, status_vars, nextId, calls,
                   store_vars, delivered, reply, other_vars>>

StoreNext ==
    \/ StoreAddAlertEvent
    \/ StoreUpdateStatus
    \/ StoreTick

\* the alert store called directly, in any order
StoreSpec == Init /\ [][StoreNext]_vars

\* ------------------------------------------------------- the event queries

\* a mutant: the comparison is strict
OccurredSinceStrict(occurred_at, now, since_hours) ==
    TextLess(IsoFormat(Cutoff(now, since_hours)), IsoWhole(occurred_at))

\* WHERE occurred_at >= :cutoff, cutoff = (_utc_now() -
\* timedelta(hours=max(1, since_hours))).isoformat().replace("+00:00", "Z")
OccurredSince(occurred_at, now, since_hours) ==
    ~TextLess(IsoWhole(occurred_at), IsoFormat(Cutoff(now, since_hours)))

\* the optional filters of list_events: an empty value adds no clause
NoFilter == [category |-> "", region |-> <<>>, country |-> <<>>,
             search_query |-> <<>>]

\* title LIKE :q OR summary LIKE :q, q = "%" + search_query.strip() + "%";
\* LIKE ignores the case of ASCII letters (the rows of the model carry no tags)
SearchMatches(row, search_query) ==
    LET q == Lower(Strip(search_query))
    IN Contains(Lower(row.title), q) \/ Contains(Lower(row.summary), q)

\* the AND-ed clauses after the cutoff clause
FilterAccepts(filter, row) ==
    /\ filter.category # "" => row.category = filter.category
    /\ filter.region # <<>> => row.region = filter.region
    /\ filter.country # <<>> => row.country = filter.country
    /\ filter.search_query # <<>> => SearchMatches(row, filter.search_query)

\* "limit": max(1, min(limit, 500))
ClampLimit(limit) ==
    IF limit > 500 THEN 500 ELSE IF limit < 1 THEN 1 ELSE limit

\* the rows the WHERE clause of list_events selects
ListEventsMatching(rows, now, since_hours, filter) ==
    {r \in rows : OccurredSince(r.occurred_at, now, since_hours)
                    /\ FilterAccepts(filter, r)}

\* EventStore.list_events: ORDER BY occurred_at DESC LIMIT :limit; rows with
\* equal occurred_at come in the order SQLite happens to produce, so the
\* possible results are the sets of the newest rows
ListEvents(rows, now, since_hours, limit, filter) ==
    LET matching == ListEventsMatching(rows, now, since_hours, filter)
        n == IF ClampLimit(limit) < Cardinality(matching)
             THEN ClampLimit(limit) ELSE Cardinality(matching)
    IN {S \in SUBSET matching :
          /\ Cardinality(S) = n
          /\ \A x \in S, y \in matching \ S :
               ~TextLess(IsoWhole(x.occurred_at), IsoWhole(y.occurred_at))}

\* the arguments the callers pass: GET /events defaults to limit 120
LimitChoices == {1, 120}
FilterChoices ==
    {NoFilter, [NoFilter EXCEPT !.country = CountryJP],
     [NoFilter EXCEPT !.search_query = <<"q">>],
     [NoFilter EXCEPT !.category = "conflict"],
     [NoFilter EXCEPT !.region = <<"g">>]}

\* occurred_at of the events stored before the queries: at the one-hour
\* cutoff of the whole-minute instant of NowChoices, one unit before and
\* after it, and at that instant
QueryTimes == {WholeMinutes(AtMinute(300) - HourTicks) + d : d \in {-1, 0, 1}}
                \cup {300}
QueryItems ==
    {[item EXCEPT !.occurred_at = m] :
        item \in {i \in FeedItems("A") \cup FeedItems("B") :
                    i.external_id \in {"a2", "b1"}},
        m \in QueryTimes}

\* EventStore.upsert_events([event]) called directly
QueryUpsert ==
    /\ nextId <= MaxEvents
    /\ nextId' = nextId + 1
    /\ \E item \in QueryItems :
         events' = UpsertEvents(events, <<MakeEvent(item, "A", nextId, clock)>>, 0)
    /\ UNCHANGED <<runLock, pc, frame, result, status_vars, clock, calls, envSteps,
                   alertEvents, connectorStatus, ingestionLogs, auditLogs,
                   delivered, reply, other_vars>>

\* EventStore.list_events called directly: reply keeps the arguments, the
\* instant _utc_now() returned, the table that was read and the rows returned
QueryListEvents ==
    /\ \E now \in NowChoices, since_hours \in SinceChoices,
          limit \in LimitChoices, filter \in FilterChoices :
         \E rows \in ListEvents(events, now, since_hours, limit, filter) :
           reply' = [op |-> "list_events", now |-> now,
                     since_hours |-> since_hours, limit |-> limit,
                     filter |-> filter, table |-> events, value |-> rows]
    /\ UNCHANGED <<ingest_vars, other_vars>>

QueryNext ==
    \/ QueryUpsert
    \/ QueryListEvents

\* the event store written and queried directly, in any order
QuerySpec == Init /\ [][QueryNext]_vars

\* ------------------------------------------------- the polling services

MaxRefreshCalls == 3   \* refresh() calls made on the service in one behaviour

\* refresh_interval_seconds / cache_seconds, and the shorter
\* force_refresh_cooldown_seconds of the news service, in clock ticks
RefreshWindow == 2
CooldownWindow == 1

ServiceNames == {"News", "Video", "Market", "PredictionMarket"}

\* the value of _cache: the empty list, the rows the market service is
\* constructed with, or the items the k-th fetch of the service returned
NoItems == <<>>
FallbackMarkets == <<0>>
Fetched(k) == <<k>>

\* __init__: _refresh_lock free, _cached_at and _last_refresh_attempt 0.0;
\* the market cache starts with the fallback rows, the others empty
ServiceInit(name) ==
    [name |-> name, lock |-> NoThread,
     pc |-> [t \in Threads |-> "idle"],
     force |-> [t \in Threads |-> FALSE],
     bypass |-> [t \in Threads |-> FALSE],
     held |-> [t \in Threads |-> FALSE],
     cached |-> (name = "Market"), cachedAt |-> NoTime, lastAttempt |-> NoTime,
     fetches |-> 0, calls |-> 0,
     cache |-> IF name = "Market" THEN FallbackMarkets ELSE NoItems,
     outcome |-> [t \in Threads |-> "none"]]

\* now - stamp < window, a stamp of 0.0 being long ago
Fresh(stamp, now, window) == stamp # NoTime /\ now - stamp < window

\* the early return of refresh() under the state lock
SkipsRefresh(s, now, force, bypass) ==
    CASE s.name = "News" ->
           s.cached /\ ( \/ force /\ ~bypass /\ Fresh(s.lastAttempt, now, CooldownWindow)
                         \/ ~force /\ Fresh(s.lastAttempt, now, RefreshWindow) )
      [] s.name = "Market" -> ~force /\ Fresh(s.lastAttempt, now, RefreshWindow)
      [] OTHER -> ~force /\ Fresh(s.cachedAt, now, RefreshWindow)

\* _refresh_lock.acquire(timeout=...) waits for the holder;
\* acquire(blocking=False) does not
AcquireWaits(name, force) ==
    CASE name = "Market" -> force
      [] name = "PredictionMarket" -> TRUE
      [] OTHER -> FALSE

\* the service object is constructed (main.py)
ServiceConstruct ==
    /\ svc = NoService
    /\ \E name \in ServiceNames : svc' = ServiceInit(name)
    /\ UNCHANGED <<ingest_vars, reply, db, http>>

\* refresh(force, bypass_cooldown), up to the lock
RefreshCall(t) ==
    /\ svc # NoService
    /\ svc.pc[t] = "idle"
    /\ svc.calls < MaxRefreshCalls
    /\ \E force \in BOOLEAN, bypass \in (IF svc.name = "News" THEN BOOLEAN ELSE {FALSE}) :
         svc' = [svc EXCEPT
                   !.calls = @ + 1,
                   !.force[t] = force, !.bypass[t] = bypass, !.held[t] = FALSE,
                   !.outcome[t] = "none",
                   !.pc[t] = IF SkipsRefresh(svc, clock, force, bypass)
                             THEN "idle" ELSE "acquire",
                   !.lastAttempt = IF svc.name = "Market"
                                      /\ ~SkipsRefresh(svc, clock, force, bypass)
                                   THEN clock ELSE @]
    /\ UNCHANGED <<ingest_vars, reply, db, http>>

\* self._refresh_lock.acquire(...): taken when free; when another refresh
\* holds it the caller returns at once or starts waiting
RefreshAcquire(t) ==
    /\ svc # NoService
    /\ svc.pc[t] = "acquire"
    /\ svc' = IF svc.lock = NoThread
              THEN [svc EXCEPT !.lock = t, !.pc[t] = "locked"]
              ELSE [svc EXCEPT !.held[t] = TRUE,
                               !.pc[t] = IF AcquireWaits(svc.name, svc.force[t])
                                         THEN "waiting" ELSE "idle"]
    /\ UNCHANGED <<ingest_vars, reply, db, http>>

\* the wait inside acquire(timeout=...): the lock comes free in time, or
\* the timeout passes and refresh returns
RefreshWait(t) ==
    /\ svc # NoService
    /\ svc.pc[t] = "waiting"
    /\ \/ /\ svc.lock = NoThread
          /\ svc' = [svc EXCEPT !.lock = t, !.pc[t] = "locked"]
       \/ svc' = [svc EXCEPT !.pc[t] = "idle"]
    /\ UNCHANGED <<ingest_vars, reply, db, http>>

\* inside the lock: the staleness test again (not in the market service);
\* the news service stamps _last_refresh_attempt
RefreshRecheck(t) ==
    /\ svc # NoService
    /\ svc.pc[t] = "locked"
    /\ svc' = IF svc.name # "Market"
                 /\ SkipsRefresh(svc, clock, svc.force[t], svc.bypass[t])
              THEN [svc EXCEPT !.lock = NoThread, !.pc[t] = "idle"]
              ELSE [svc EXCEPT !.pc[t] = "fetch",
                               !.lastAttempt = IF svc.name = "News" THEN clock ELSE @]
    /\ UNCHANGED <<ingest_vars, reply, db, http>>

\* what a fetch can come to: items, no items, or an exception that refresh
\* logs; _fetch_all_markets also answers with the cached row of every
\* symbol when each provider call failed
FetchOutcomes(name) ==
    {"items", "empty", "raised"} \cup (IF name = "Market" THEN {"stale"} ELSE {})

\* a mutant: a fetch without items empties the cache
CacheAfterCleared(cache, outcome, k) ==
    IF outcome = "items" THEN Fetched(k) ELSE NoItems

\* refresh: `if items: self._cache = items`, and nothing else assigns a
\* non-empty cache
CacheAfter(cache, outcome, k) ==
    IF outcome = "items" THEN Fetched(k) ELSE cache

\* the outbound fetch and the cache update
RefreshFetch(t) ==
    /\ svc # NoService
    /\ svc.pc[t] = "fetch"
    /\ \E outcome \in FetchOutcomes(svc.name) :
         svc' = [svc EXCEPT
                   !.fetches = @ + 1,
                   !.pc[t] = "release",
                   !.outcome[t] = outcome,
                   !.cache = CacheAfter(@, outcome, svc.fetches + 1),
                   !.cached = CacheAfter(svc.cache, outcome, svc.fetches + 1) # NoItems,
                   !.cachedAt =
                      IF svc.name \in {"Video", "PredictionMarket"}
                         /\ (outcome = "items" \/ (outcome = "empty" /\ ~svc.cached))
                      THEN clock ELSE @]
    /\ UNCHANGED <<ingest_vars, reply, db, http>>

\* finally: self._refresh_lock.release()
RefreshRelease(t) ==
    /\ svc # NoService
    /\ svc.pc[t] = "release"
    /\ svc' = [svc EXCEPT !.lock = NoThread, !.pc[t] = "idle"]
    /\ UNCHANGED <<ingest_vars, reply, db, http>>

\* time passes
RefreshTick ==
    /\ envSteps < MaxEnvSteps
    /\ envSteps' = envSteps + 1
    /\ clock' = clock + 1
    /\ UNCHANGED <<runLock, pc, frame, result, status_vars, nextId, calls,
                   store_vars, delivered, reply, other_vars>>

RefreshNext ==
    \/ ServiceConstruct
    \/ \E t \in Threads :
         \/ RefreshCall(t)
         \/ RefreshAcquire(t)
         \/ RefreshWait(t)
         \/ RefreshRecheck(t)
         \/ RefreshFetch(t)
         \/ RefreshRelease(t)
    \/ RefreshTick

\* one polling service called by two threads
RefreshSpec == Init /\ [][RefreshNext]_vars

\* ------------------------------------------------- the store's write lock

\* the operations that begin `with self._lock, self._connect() as conn`
WriteOps == {"upsert_events", "set_connector_status", "add_ingestion_log",
             "upsert_alert_rule", "add_alert_event", "update_alert_event_status",
             "upsert_saved_query", "delete_saved_query", "add_audit_log"}

\* the operations that begin `with self._connect() as conn`
ReadOps == {"list_events", "get_event", "pulse", "list_connector_status",
            "list_alert_inbox", "list_saved_queries"}

\* a mutant: add_audit_log writes without the lock
TakesLockExceptAudit(op) == op \in WriteOps \ {"add_audit_log"}

\* whether the operation enters self._lock
TakesLock(op) == op \in WriteOps

\* a thread calls a store operation
DbCall(t) ==
    /\ db.pc[t] = "idle"
    /\ \E op \in WriteOps \cup ReadOps :
         db' = [db EXCEPT !.op[t] = op,
                          !.pc[t] = IF TakesLock(op) THEN "acquire" ELSE "connected"]
    /\ UNCHANGED <<ingest_vars, reply, svc, http>>

\* `with self._lock`: entered when no other thread is inside
DbLock(t) ==
    /\ db.pc[t] = "acquire"
    /\ db.lock = NoThread
    /\ db' = [db EXCEPT !.lock = t, !.pc[t] = "connected"]
    /\ UNCHANGED <<ingest_vars, reply, svc, http>>

\* the statements of the operation on its own connection, and the commit
\* when the connection's block ends
DbExecute(t) ==
    /\ db.pc[t] = "connected"
    /\ db' = IF db.lock = t
             THEN [db EXCEPT !.pc[t] = "unlock"]
             ELSE [db EXCEPT !.pc[t] = "idle", !.op[t] = "none"]
    /\ UNCHANGED <<ingest_vars, reply, svc, http>>

\* the end of `with self._lock`
DbUnlock(t) ==
    /\ db.pc[t] = "unlock"
    /\ db' = [db EXCEPT !.lock = NoThread, !.pc[t] = "idle", !.op[t] = "none"]
    /\ UNCHANGED <<ingest_vars, reply, svc, http>>

DbNext ==
    \E t \in Threads :
        \/ DbCall(t)
        \/ DbLock(t)
        \/ DbExecute(t)
        \/ DbUnlock(t)

\* two threads calling the store's operations
DbSpec == Init /\ [][DbNext]_vars

\* ------------------------------------------------------ the status reader

\* EventIngestionService.runtime_status: the fields read in one state-lock
\* section (next_run_at is computed from last_run_started_at and the fixed
\* refresh_minutes)
RuntimeStatus ==
    /\ reply' = [op |-> "runtime_status",
                 value |-> [running |-> running,
                            last_run_started_at |-> lastStarted,
                            last_run_finished_at |-> lastFinished,
                            last_error |-> lastError,
                            last_ingested_count |-> lastIngested]]
    /\ UNCHANGED <<ingest_vars, other_vars>>

StatusNext ==
    \/ NextPass
    \/ Tick
    \/ RuntimeStatus

\* the passes of the example, time passing, and a reader of the status
StatusSpec == Init /\ [][StatusNext]_vars

\* --------------------------------------------- the connector status table

\* the arguments of the set_connector_status calls: a successful fetch, a
\* failed one, a disabled connector (as ingest() passes them), and a call
\* with negative counts and no next run
StatusCalls(now) ==
    { [enabled |-> TRUE, success |-> TRUE, items_fetched |-> 2, duration_ms |-> 5,
       next_run_at |-> NextRunAt(now), error_message |-> None],
      [enabled |-> TRUE, success |-> FALSE, items_fetched |-> 0, duration_ms |-> 7,
       next_run_at |-> NextRunAt(now), error_message |-> "fetch failed"],
      [enabled |-> FALSE, success |-> FALSE, items_fetched |-> 0, duration_ms |-> 0,
       next_run_at |-> NextRunAt(now), error_message |-> "connector disabled"],
      [enabled |-> TRUE, success |-> TRUE, items_fetched |-> -1, duration_ms |-> -1,
       next_run_at |-> NoTime, error_message |-> None] }

\* EventStore.set_connector_status called directly
StoreSetConnectorStatus ==
    /\ envSteps < MaxStoreCalls
    /\ envSteps' = envSteps + 1
    /\ \E name \in ConnectorNames, a \in StatusCalls(clock) :
         /\ connectorStatus' =
              SetConnectorStatus(connectorStatus, name, a.enabled, a.success,
                                 a.items_fetched, a.duration_ms, a.next_run_at,
                                 a.error_message, clock)
         /\ reply' = [op |-> "set_connector_status", n |-> envSteps + 1,
                      name |-> name, args |-> a, now |-> clock]
    /\ UNCHANGED <<runLock, pc, frame, result, status_vars, clock, nextId, calls,
                   events, alertEvents, ingestionLogs, auditLogs, delivered,
                   other_vars>>

ConnectorStatusNext ==
    \/ StoreSetConnectorStatus
    \/ StoreTick

\* set_connector_status called in any order, time passing between calls
ConnectorStatusSpec == Init /\ [][ConnectorStatusNext]_vars

\* ------------------------------------------------------ the rule matcher

MaxCountries == 13     \* countries with events in the recent window

\* two-letter country codes, in ascending order
CodeLetters == <<"J", "P", "Q", "X">>
ActiveCountry(k) ==
    <<CodeLetters[((k - 1) \div Len(CodeLetters)) + 1],
      CodeLetters[((k - 1) % Len(CodeLetters)) + 1]>>

\* occurred_at of the stored events: inside the six-hour window of the
\* pulse, and before it but inside the baseline
RecentTimes == <<EpochMinute - 10, EpochMinute - 70>>
BaselineTimes == <<EpochMinute - 7 * MinutesPerHour, EpochMinute - 8 * MinutesPerHour>>

\* what a feed holds about the k-th country at minute m; the severities lie
\* around the threshold of MatchRules
ActiveItem(k, m) ==
    [external_id |-> <<"e", k, m>>, source_url |-> NoUrl, title |-> TitleQuakeA,
     country |-> ActiveCountry(k), region |-> <<"g">>, category |-> "disaster",
     summary |-> <<>>, body_snippet |-> <<>>,
     severity |-> 49 + (k % 3), occurred_at |-> m]

\* n active countries with one recent event each; the n-th has recent_count
\* recent events and baseline_count events in the baseline
ActiveItems(n, recent_count, baseline_count) ==
    [k \in 1..(n - 1) |-> ActiveItem(k, RecentTimes[1])]
      \o [j \in 1..recent_count |-> ActiveItem(n, RecentTimes[j])]
      \o [j \in 1..baseline_count |-> ActiveItem(n, BaselineTimes[j])]

\* the rules _rule_matches is called with
MatchRules ==
    {[id |-> "r", enabled |-> TRUE, severity_threshold |-> 50,
      countries |-> countries, regions |-> regions, categories |-> categories,
      keywords |-> keywords, spike_detection |-> FALSE] :
        countries \in {{}, {ActiveCountry(1), ActiveCountry(MaxCountries)}},
        regions \in {{}, {<<"g">>}, {<<"f">>}},
        categories \in {{}, {"disaster"}, {"conflict"}},
        keywords \in {{}, {<<"X">>, <<"Q", Space>>}, {<<"x">>}}}
     \cup
    {[id |-> "s", enabled |-> TRUE, severity_threshold |-> threshold,
      countries |-> {}, regions |-> {}, categories |-> categories,
      keywords |-> {}, spike_detection |-> TRUE] :
        threshold \in {0, 50}, categories \in {{}, {"conflict"}}}

\* EventStore.upsert_events(batch) called directly on the empty table
MatchUpsert ==
    /\ events = {}
    /\ \E n \in {1, MaxCountries - 1, MaxCountries},
          recent_count \in 1..Len(RecentTimes),
          baseline_count \in 0..Len(BaselineTimes) :
         LET items == ActiveItems(n, recent_count, baseline_count)
         IN /\ events' = UpsertEvents(events, MakeEvents(items, "A", nextId, clock), 0)
            /\ nextId' = nextId + Len(items)
    /\ UNCHANGED <<runLock, pc, frame, result, status_vars, clock, calls, envSteps,
                   alertEvents, connectorStatus, ingestionLogs, auditLogs,
                   delivered, reply, other_vars>>

\* _rule_matches(rule, event) called directly on a stored event: reply keeps
\* the arguments, the table and instant the pulse was computed from, and
\* the value returned.  The call writes nothing: one call per behaviour
\* covers them all
MatchCall ==
    /\ reply = NoReply
    /\ \E rule \in MatchRules, event \in events :
         reply' = [op |-> "rule_matches", rule |-> rule, event |-> event,
                   table |-> events, now |-> WallClock(clock),
                   value |-> RuleMatches(rule, event)]
    /\ UNCHANGED <<ingest_vars, other_vars>>

\* time passes between the upsert and the evaluation
MatchTick ==
    /\ envSteps < MaxStoreCalls
    /\ envSteps' = envSteps + 1
    /\ clock' = clock + 1
    /\ UNCHANGED <<runLock, pc, frame, result, status_vars, nextId, calls,
                   store_vars, delivered, reply, other_vars>>

MatchNext ==
    \/ MatchUpsert
    \/ MatchCall
    \/ MatchTick

\* the rule matcher called directly on a stored batch
MatchSpec == Init /\ [][MatchNext]_vars

\* ------------------------------------------------------ the ordered reads

\* a mutant: ORDER BY occurred_at ASC
RowBeforeOldestFirst(a, b, ties) ==
    \/ TextLess(IsoWhole(a.occurred_at), IsoWhole(b.occurred_at))
    \/ a.occurred_at = b.occurred_at /\ (IF ties THEN a.id < b.id ELSE b.id < a.id)

\* ORDER BY occurred_at DESC: a comes before b.  SQLite leaves the order of
\* rows with equal occurred_at open: they come in insertion order or in its
\* reverse, as `ties` says
RowBefore(a, b, ties) ==
    \/ TextLess(IsoWhole(b.occurred_at), IsoWhole(a.occurred_at))
    \/ a.occurred_at = b.occurred_at /\ (IF ties THEN a.id < b.id ELSE b.id < a.id)

\* EventStore.list_events: the rows as a list, ORDER BY ... LIMIT :limit
ListEventsRows(rows, now, since_hours, limit, filter, ties) ==
    LET matching == ListEventsMatching(rows, now, since_hours, filter)
        rank(r) == Cardinality({x \in matching : RowBefore(x, r, ties)}) + 1
        n == IF ClampLimit(limit) < Cardinality(matching)
             THEN ClampLimit(limit) ELSE Cardinality(matching)
    IN [i \in 1..n |-> CHOOSE r \in matching : rank(r) = i]

\* safe_minutes = 15 if bucket_minutes < 15 else min(bucket_minutes, 6 * 60)
SafeMinutes(bucket_minutes) ==
    IF bucket_minutes < 15 THEN 15
    ELSE IF bucket_minutes > 6 * MinutesPerHour THEN 6 * MinutesPerHour
    ELSE bucket_minutes

\* CAST(strftime('%s', occurred_at) / (:bucket * 60) AS INTEGER) * (:bucket * 60)
BucketTime(occurred_at, safe_minutes) == (occurred_at \div safe_minutes) * safe_minutes

RECURSIVE SeveritySum(_)
SeveritySum(S) ==
    IF S = {} THEN 0
    ELSE LET r == CHOOSE x \in S : TRUE IN r.severity + SeveritySum(S \ {r})

\* round(AVG(severity), 2), in hundredths
AvgSeverity(S) == (2 * 100 * SeveritySum(S) + Cardinality(S)) \div (2 * Cardinality(S))

\* EventStore.timeline: GROUP BY bucket_time ORDER BY bucket_time ASC
Timeline(rows, now, since_hours, bucket_minutes) ==
    LET safe_minutes == SafeMinutes(bucket_minutes)
        selected == {r \in rows : OccurredSince(r.occurred_at, now, since_hours)}
        times == {BucketTime(r.occurred_at, safe_minutes) : r \in selected}
        group(bt) == {r \in selected : BucketTime(r.occurred_at, safe_minutes) = bt}
        rank(bt) == Cardinality({x \in times : TextLess(IsoWhole(x), IsoWhole(bt))}) + 1
        at(i) == CHOOSE bt \in times : rank(bt) = i
    IN [i \in 1..Cardinality(times) |->
          [bucket_time |-> at(i), event_count |-> Cardinality(group(at(i))),
           avg_severity |-> AvgSeverity(group(at(i)))]]

\* EventStore.pulse as the list it returns: sorted, then cut
PulseList(rows, now, window_hours, baseline_hours) ==
    LET top == Pulse(rows, now, window_hours, baseline_hours)
        rank(a) == Cardinality({b \in top : PulseBefore(b, a)}) + 1
    IN [i \in 1..Cardinality(top) |-> CHOOSE a \in top : rank(a) = i]

\* GET /events, /events/timeline and /events/pulse: the arguments passed
ReadLimits == {0, 1, 2, 120, 600}
ReadSince == {1, 6, 24}
ReadBuckets == {1, 15, 60, 6 * MinutesPerHour, 1000}
ReadFilters == {NoFilter, [NoFilter EXCEPT !.country = ActiveCountry(1)]}
ReadWindows == {1, 6}
ReadBaselines == {2, 7, 24}

\* list_events called directly; one read per behaviour, a read writes nothing
ReadListEvents ==
    /\ reply = NoReply
    /\ \E since_hours \in ReadSince, limit \in ReadLimits,
          filter \in ReadFilters, ties \in BOOLEAN :
         reply' = [op |-> "list_events_rows", now |-> WallClock(clock),
                   since_hours |-> since_hours, limit |-> limit, filter |-> filter,
                   table |-> events,
                   value |-> ListEventsRows(events, WallClock(clock), since_hours,
                                            limit, filter, ties)]
    /\ UNCHANGED <<ingest_vars, other_vars>>

\* timeline called directly
ReadTimeline ==
    /\ reply = NoReply
    /\ \E since_hours \in ReadSince, bucket_minutes \in ReadBuckets :
         reply' = [op |-> "timeline", now |-> WallClock(clock),
                   since_hours |-> since_hours, bucket_minutes |-> bucket_minutes,
                   table |-> events,
                   value |-> Timeline(events, WallClock(clock), since_hours,
                                      bucket_minutes)]
    /\ UNCHANGED <<ingest_vars, other_vars>>

\* pulse called directly
ReadPulse ==
    /\ reply = NoReply
    /\ \E window_hours \in ReadWindows, baseline_hours \in ReadBaselines :
         reply' = [op |-> "pulse", now |-> WallClock(clock),
                   window_hours |-> window_hours, baseline_hours |-> baseline_hours,
                   table |-> events,
                   value |-> PulseList(events, WallClock(clock), window_hours,
                                       baseline_hours)]
    /\ UNCHANGED <<ingest_vars, other_vars>>

ReadNext ==
    \/ MatchUpsert
    \/ MatchTick
    \/ ReadListEvents
    \/ ReadTimeline
    \/ ReadPulse

\* the read API of the event store called on a stored batch
ReadSpec == Init /\ [][ReadNext]_vars

\* --------------------------------------------------- the cluster re-keying

MaxBatch == 2          \* events in the list passed to _normalize_clusters
MaxRetries == 2        \* the retries an HttpFetcher is built with

\* a title longer than the prefix the cluster key keeps
LongTitle(last) == [i \in 1..ClusterTitleChars |-> "q"] \o <<last>>

\* what the feeds hold: the records of the example, two whose titles differ
\* after the prefix only, and one without a country
ClusterItems ==
    FeedItems("A") \cup FeedItems("B")
      \cup {[external_id |-> IF last = "x" THEN "lx" ELSE "lj", source_url |-> NoUrl,
             title |-> LongTitle(last), country |-> CountryJP, region |-> <<"g">>,
             category |-> "disaster", summary |-> <<>>, body_snippet |-> <<>>,
             severity |-> 70, occurred_at |-> 70] : last \in {"x", "j"}}
      \cup {[external_id |-> "n", source_url |-> NoUrl, title |-> TitleFlood,
             country |-> <<>>, region |-> <<"g">>, category |-> "disaster",
             summary |-> <<>>, body_snippet |-> <<>>,
             severity |-> 40, occurred_at |-> 200]}

\* _normalize_clusters(events) called directly on a list of events built by
\* either connector; reply keeps the list passed and the list returned
ClusterCall ==
    /\ reply = NoReply
    /\ \E n \in 0..MaxBatch, built \in 0..clock :
         \E items \in [1..n -> ClusterItems], sources \in [1..n -> {"A", "B"}] :
           LET batch == [k \in 1..n |-> BuiltEvent(items[k], sources[k], k, built)]
           IN reply' = [op |-> "normalize_clusters", batch |-> batch, now |-> clock,
                        value |-> NormalizeClusters(batch, clock)]
    /\ UNCHANGED <<ingest_vars, other_vars>>

ClusterNext ==
    \/ ClusterCall
    \/ StoreTick

\* the re-keying pass called directly
ClusterSpec == Init /\ [][ClusterNext]_vars

\* ----------------------------------------------------- the HTTP fetcher

\* the exceptions get_bytes catches, by what urlopen raised: HTTPError is
\* raised for every answer whose status is an error, a missing page (404) as
\* much as an overloaded server (503)
CaughtErrors == {"HTTPError 404", "HTTPError 503", "URLError", "TimeoutError"}

\* an exception outside the except clause, raised by urlopen or by read()
OtherErrors == {"ValueError"}

\* the errors that a later attempt may not meet again
TransientErrors == {"HTTPError 503", "URLError", "TimeoutError"}

FetchMethods == {"get_bytes", "get_json", "get_xml"}

\* HttpFetcher.__init__: self.retries = max(0, retries)
FetcherRetries(retries) == IF retries < 0 THEN 0 ELSE retries

\* a connector calls get_bytes, get_json or get_xml
HttpCall ==
    /\ http = NoRequest
    /\ \E method \in FetchMethods, retries \in -1..MaxRetries :
         http' = [pc |-> "attempt", method |-> method,
                  retries |-> FetcherRetries(retries), attempt |-> 0,
                  opened |-> 0, parsed |-> 0, last_error |-> "none",
                  slept_after |-> "none", raised |-> "none"]
    /\ UNCHANGED <<ingest_vars, reply, svc, db>>

\* one turn of the loop of get_bytes: urlopen and read()
HttpAttempt ==
    /\ http.pc = "attempt"
    /\ \/ http' = [http EXCEPT !.opened = @ + 1,
                               !.pc = IF http.method = "get_bytes"
                                      THEN "returned" ELSE "parse"]
       \/ \E exc \in CaughtErrors :
            http' = [http EXCEPT !.opened = @ + 1,
                                 !.last_error = exc,
                                 !.pc = IF http.attempt >= http.retries
                                        THEN "raised" ELSE "sleep",
                                 !.raised = IF http.attempt >= http.retries
                                            THEN "RuntimeError" ELSE "none"]
       \/ \E exc \in OtherErrors :
            http' = [http EXCEPT !.opened = @ + 1, !.pc = "raised",
                                 !.raised = exc]
    /\ UNCHANGED <<ingest_vars, reply, svc, db>>

\* time.sleep(delay), then the next turn of the loop
HttpSleep ==
    /\ http.pc = "sleep"
    /\ http' = [http EXCEPT !.pc = "attempt", !.attempt = @ + 1,
                            !.slept_after = http.last_error]
    /\ UNCHANGED <<ingest_vars, reply, svc, db>>

\* get_json and get_xml: json.loads or ET.fromstring on what get_bytes returned
HttpParse ==
    /\ http.pc = "parse"
    /\ \/ http' = [http EXCEPT !.parsed = @ + 1, !.pc = "returned"]
       \/ http' = [http EXCEPT !.parsed = @ + 1, !.pc = "raised",
                               !.raised = "ParseError"]
    /\ UNCHANGED <<ingest_vars, reply, svc, db>>

HttpNext == HttpCall \/ HttpAttempt \/ HttpSleep \/ HttpParse

HttpSpec == Init /\ [][HttpNext]_vars

\* ================================================================ claims

\* C1: single-flight.  At most one ingest() call is inside the pass body at
\* a time and it holds the run lock; a call made while another call is in
\* the body returns {status: "busy", ingested: 0} whatever its force flag,
\* a call made while none is in the body starts a run, and a call that ran
\* returns something other than "busy".
SingleFlightStep ==
    \A t \in Threads :
        /\ CallIngest(t) =>
              IF \E u \in Threads \ {t} : InBody(u)
              THEN /\ pc'[t] = "returned"
                   /\ result'[t].status = "busy"
                   /\ result'[t].ingested = 0
              ELSE pc'[t] = "start" /\ runLock' = t
        /\ (pc[t] = "release" /\ pc'[t] = "returned") =>
              result'[t].status \notin {"busy", "none"}

HashOfId(id) == (CHOOSE d \in delivered : d.id = id).dedupe_hash

\* C2: at-most-once alerting.  A rule holds at most one AlertEvent for one
\* logical event (one dedupe identity), however often the event was
\* delivered to the evaluator.
C2_AtMostOncePerLogicalEvent ==
    \A a \in alertEvents, b \in alertEvents :
        (a.rule_id = b.rule_id /\ HashOfId(a.event_id) = HashOfId(b.event_id))
            => a = b

NonIdentityFields ==
    {"source", "source_url", "title", "summary", "body_snippet", "category",
     "country", "region", "severity", "occurred_at", "ingested_at",
     "updated_at", "cluster_id"}

\* the last candidate of the batch that has dedupe hash h
LastWith(batch, h) ==
    batch[CHOOSE i \in 1..Len(batch) :
            /\ DedupeHash(batch[i]) = h
            /\ \A j \in (i + 1)..Len(batch) : DedupeHash(batch[j]) # h]

UpsertCommitted(t) == pc[t] = "upsert" /\ pc'[t] = "evaluate"

AlertRank(status) ==
    CASE status = "new" -> 0 [] status = "acked" -> 1 [] status = "resolved" -> 2

\* C4: status monotonicity.  No step moves an AlertEvent's status backward
\* along new -> acked -> resolved.
C4_StatusMonotone ==
    [][\A a \in alertEvents : \A b \in alertEvents' :
          b.id = a.id => AlertRank(b.status) >= AlertRank(a.status)]_vars

\* the batch of the example: two candidates without URL, of one dedupe
\* identity, both matching rule r1
C5_Scenario(batch) ==
    /\ Len(batch) = 2
    /\ \A i \in 1..2 : Strip(batch[i].source_url) = <<>>
    /\ DedupeHash(batch[1]) = DedupeHash(batch[2])
    /\ \A i \in 1..2 : Rules[1].enabled /\ RuleMatches(Rules[1], batch[i])

\* C5: after a pass over the batch of the example the store holds one row
\* for the two candidates and rule r1 fired exactly once (one AlertEvent,
\* alerts_fired = 1).
C5_ExampleFiresOnce ==
    \A t \in Threads :
        (pc[t] = "finally" /\ result[t].status = "ok" /\ C5_Scenario(frame[t].batch))
          => /\ Cardinality({r \in events :
                               r.dedupe_hash = DedupeHash(frame[t].batch[1])}) = 1
             /\ result[t].alerts_fired = 1
             /\ Cardinality({a \in alertEvents :
                               /\ a.rule_id = Rules[1].id
                               /\ a.event_id \in {frame[t].batch[1].id,
                                                  frame[t].batch[2].id}}) = 1

\* C6: the id of a stored row never changes: every row is still there after
\* a step, with the id it had.
C6_RowIdStable ==
    [][\A r \in events :
          \E r2 \in events' : r2.dedupe_hash = r.dedupe_hash /\ r2.id = r.id]_vars

\* a later candidate of the same identity, with another id, was written and
\* the row has the id of the first one
C6_Witness ==
    \E r \in events : \E d \in delivered :
        d.dedupe_hash = r.dedupe_hash /\ d.id > r.id

\* C7: no step makes the ingested_at of a stored row earlier.
C7_IngestedAtNeverRegresses ==
    [][\A r \in events : \A r2 \in events' :
          r2.dedupe_hash = r.dedupe_hash => r2.ingested_at >= r.ingested_at]_vars

\* a row was re-ingested: its ingested_at is later than that of the
\* candidate it was inserted from
C7_Witness ==
    \E r \in events : \E d \in delivered :
        d.id = r.id /\ r.ingested_at > d.ingested_at

\* C8: a call that acquired the run lock finishes (no thread stays in the
\* pass body for ever), and when it does _running is false and the run lock
\* is free; with no call in the body the lock is free, so the next call is
\* not answered "busy".
C8_PassEndsAndReleases ==
    /\ \A t \in Threads : []<>(~InBody(t))
    /\ [][\A t \in Threads :
            (pc[t] = "release" /\ pc'[t] = "returned")
               => (~running' /\ runLock' = NoThread)]_vars
    /\ []((\A t \in Threads : ~InBody(t)) => (runLock = NoThread /\ ~running))

\* a pass in which a store write failed has finished and the lock is free
C8_Witness ==
    \E t \in Threads :
        /\ pc[t] = "returned"
        /\ result[t].status \in {"error", "raised"}
        /\ runLock = NoThread
        /\ ~running

\* C9: a pass in which a persistence operation failed gives its caller
\* {status: "error"}; no exception leaves ingest().
C9_FailedPassReturnsError ==
    \A t \in Threads :
        (pc[t] \in {"finally", "release"} /\ frame[t].failed # None)
            => result[t].status = "error"

\* C10: when upsert_events fails the events table is what it was before the
\* call: no row of the batch is inserted or modified and the rows of
\* earlier passes keep their fields.
C10_FailedUpsertChangesNothing ==
    [][\A t \in Threads :
          (pc[t] = "upsert" /\ pc'[t] = "handler") => events' = events]_vars

\* upsert_events failed after its first statement had run on a row stored
\* by an earlier pass
C10_Witness ==
    \E t \in Threads :
        /\ pc[t] = "handler"
        /\ frame[t].failed = "upsert_events"
        /\ frame[t].failAt >= 2
        /\ \E r \in events :
             /\ r.dedupe_hash = DedupeHash(frame[t].batch[1])
             /\ r.id # frame[t].batch[1].id

\* the connectors ingest() fetches, in their order
EnabledConnectors == SelectSeq(Connectors, ConnectorEnabled)

\* C11: a connector's error does not block the others.  The step in which
\* a connector's error is logged moves the loop to the next connector with
\* the error in the summary, and a pass that got past the evaluation has a
\* summary for every enabled connector, in order, and the events of the
\* connectors that answered in the store and handed to the evaluator.
C11_ErrorDoesNotBlock ==
    /\ [][\A t \in Threads :
            LET i == frame[t].ci
            IN (/\ pc[t] = "connectors"
                /\ ingestionLogs' =
                     Append(ingestionLogs, LogRow("ERROR", Connectors[i], clock)))
               => /\ pc'[t] = AfterConnector(i)
                  /\ frame'[t].ci = i + 1
                  /\ frame'[t].summaries =
                       Append(frame[t].summaries,
                              [name |-> Connectors[i], items |-> 0,
                               error |-> "fetch failed"])]_vars
    /\ [](\A t \in Threads :
            pc[t] = "finish" =>
              /\ [k \in 1..Len(frame[t].summaries) |-> frame[t].summaries[k].name]
                   = EnabledConnectors
              /\ \A k \in 1..Len(frame[t].batch) :
                   /\ \E r \in events : r.dedupe_hash = DedupeHash(frame[t].batch[k])
                   /\ \E d \in delivered : d.id = frame[t].batch[k].id)

\* a pass returned ok although its first connector failed: the event of
\* the second one is stored
C11_Witness ==
    \E t \in Threads :
        /\ pc[t] = "finally"
        /\ result[t].status = "ok"
        /\ frame[t].summaries[1].error # None
        /\ Len(frame[t].batch) = 1
        /\ \E r \in events : r.id = frame[t].batch[1].id

\* C12: a fetch result that carries an error carries no events.
C12_ErrorMeansNoEvents ==
    reply.op = "fetch" => (reply.error # None => reply.events = <<>>)

\* C17: every event a fetch returns occurred at or after the cutoff
\* now - since_hours.
C17_FetchedWithinWindow ==
    reply.op = "fetch" =>
        \A k \in 1..Len(reply.events) :
            AtMinute(reply.events[k].occurred_at)
                >= Cutoff(reply.now, reply.since_hours)

\* C13: add_alert_event is insert-if-absent on (rule_id, event_id).  A
\* call for a pair without a row returns true and adds one row with status
\* new; a call for a pair with a row returns false and leaves the table,
\* and with it the row's status and timestamps, as it was.
C13_InsertIfAbsent ==
    [][(reply'.op = "add_alert_event" /\ reply' # reply) =>
          LET old == {a \in alertEvents : /\ a.rule_id = reply'.rule_id
                                          /\ a.event_id = reply'.event_id}
              new == alertEvents' \ alertEvents
          IN IF old = {}
             THEN /\ reply'.value = TRUE
                  /\ alertEvents \subseteq alertEvents'
                  /\ Cardinality(new) = 1
                  /\ \A a \in new : /\ a.rule_id = reply'.rule_id
                                     /\ a.event_id = reply'.event_id
                                     /\ a.status = "new"
             ELSE /\ reply'.value = FALSE
                  /\ alertEvents' = alertEvents]_vars

\* a resolved alert was matched again: the call returned false and the
\* alert is still resolved
C13_Witness ==
    /\ reply.op = "add_alert_event"
    /\ reply.value = FALSE
    /\ \E a \in alertEvents : /\ a.rule_id = reply.rule_id
                              /\ a.event_id = reply.event_id
                              /\ a.status = "resolved"

\* C16: resolving implies acknowledgement.  After
\* update_alert_event_status(id, "resolved") the row is resolved, its
\* resolved_at is the time of the call, and its acked_at is that time if
\* it was unset and what it was otherwise.
C16_ResolveImpliesAck ==
    [][(/\ reply'.op = "update_alert_event_status"
        /\ reply' # reply
        /\ reply'.status = "resolved") =>
          /\ reply'.value = (\E a \in alertEvents : a.id = reply'.id)
          /\ \A a \in alertEvents :
                a.id = reply'.id =>
                  \E b \in alertEvents' :
                     /\ b.id = a.id
                     /\ b.status = "resolved"
                     /\ b.resolved_at = clock
                     /\ b.acked_at = IF a.acked_at = NoTime THEN clock
                                     ELSE a.acked_at]_vars

\* an alert acknowledged earlier was resolved: acked_at is still the
\* earlier time
C16_Witness ==
    /\ reply.op = "update_alert_event_status"
    /\ reply.status = "resolved"
    /\ \E a \in alertEvents : /\ a.id = reply.id
                              /\ a.status = "resolved"
                              /\ a.acked_at # NoTime
                              /\ a.acked_at < a.resolved_at

AlertIds(alerts) == {a.id : a \in alerts}

\* C14: alerts_fired is the number of alert_events rows the pass created.
\* The evaluation of a pass sets its counter to the number of rows it
\* added, no row is added between the evaluation and the return, and the
\* "ok" result carries that counter.
C14_FiredCountsCreatedRows ==
    [][\A t \in Threads :
          /\ (pc[t] = "evaluate" /\ pc'[t] = "finish") =>
                frame'[t].fired =
                   Cardinality(AlertIds(alertEvents') \ AlertIds(alertEvents))
          /\ (pc[t] \in {"finish", "audit"}) =>
                /\ AlertIds(alertEvents') = AlertIds(alertEvents)
                /\ frame'[t].fired = frame[t].fired
          /\ (pc[t] = "audit" /\ pc'[t] = "finally" /\ result'[t].status = "ok") =>
                result'[t].alerts_fired = frame[t].fired]_vars

\* a pass returned ok with alerts_fired = 2 and the two rows are there
C14_Witness ==
    \E t \in Threads :
        /\ pc[t] = "finally"
        /\ result[t].status = "ok"
        /\ result[t].alerts_fired = 2
        /\ Cardinality(alertEvents) = 2

\* C15: a call that finds the run lock held returns "busy" in that step
\* and changes nothing: the runtime status fields, the lock, every store
\* table and the other caller are as they were.
C15_BusyChangesNothing ==
    [][(calls' = calls + 1 /\ runLock # NoThread) =>
          /\ \E t \in Threads :
                /\ pc'[t] = "returned"
                /\ result'[t] = [status |-> "busy", ingested |-> 0, alerts_fired |-> 0]
                /\ \A u \in Threads \ {t} :
                      /\ pc'[u] = pc[u]
                      /\ frame'[u] = frame[u]
                      /\ result'[u] = result[u]
          /\ UNCHANGED <<runLock, status_vars, store_vars, clock, nextId,
                         envSteps, delivered>>]_vars

\* a call was answered busy while the other caller's pass, which has
\* stored an event, is still running
C15_Witness ==
    \E t \in Threads, u \in Threads :
        /\ result[t].status = "busy"
        /\ pc[t] = "returned"
        /\ pc[u] \in {"evaluate", "finish", "audit"}
        /\ running
        /\ events # {}

\* C18: one status write and one log entry per enabled connector, before
\* the next connector is fetched.  The step that completes the iteration
\* of an enabled connector leaves the connector's status row written at
\* that time (success exactly when there is no error, with the number of
\* items fetched) and appends one log entry for it, INFO on success and
\* ERROR on failure; when the loop is over the last log entries are those
\* of the enabled connectors, in their order.
C18_OneStatusAndLogPerConnector ==
    /\ [][\A t \in Threads :
            LET i == frame[t].ci
                c == Connectors[i]
                s == frame'[t].summaries[Len(frame'[t].summaries)]
                ok == s.error = None
            IN (/\ pc[t] = "connectors"
                /\ frame'[t].ci = i + 1
                /\ ConnectorEnabled(c))
               => /\ Len(frame'[t].summaries) = Len(frame[t].summaries) + 1
                  /\ s.name = c
                  /\ s.items = Len(frame'[t].batch) - Len(frame[t].batch)
                  /\ Cardinality({r \in connectorStatus' : r.name = c}) = 1
                  /\ \A r \in connectorStatus' :
                        r.name = c =>
                          /\ r.enabled
                          /\ r.updated_at = clock
                          /\ r.items_fetched = s.items
                          /\ r.last_error = s.error
                          /\ ok => r.last_success_at = clock
                          /\ ~ok => r.last_error_at = clock
                  /\ \A r \in connectorStatus : r.name # c => r \in connectorStatus'
                  /\ ingestionLogs' =
                       Append(ingestionLogs,
                              LogRow(IF ok THEN "INFO" ELSE "ERROR", c, clock))]_vars
    /\ [](\A t \in Threads :
            pc[t] = "upsert" =>
              LET n == Len(EnabledConnectors)
                  m == Len(ingestionLogs)
              IN /\ m >= n
                 /\ [k \in 1..n |-> ingestionLogs[m - n + k].connector]
                      = EnabledConnectors)

\* the loop is over: the first connector failed, the second answered with
\* one event, and both have their status row and their log entry
C18_Witness ==
    \E t \in Threads :
        /\ pc[t] = "upsert"
        /\ Len(frame[t].batch) = 1
        /\ \E r \in connectorStatus :
              r.name = Connectors[1] /\ r.last_error # None /\ r.items_fetched = 0
        /\ \E r \in connectorStatus :
              r.name = Connectors[2] /\ r.last_error = None /\ r.items_fetched = 1
        /\ ingestionLogs[Len(ingestionLogs) - 1].level = "ERROR"
        /\ ingestionLogs[Len(ingestionLogs)].level = "INFO"

\* C20: with no filter and a limit that truncates nothing, list_events
\* returns a row exactly when its occurred_at is at or after the instant
\* now - since_hours: the comparison of the timestamp strings agrees with
\* the order of the instants
C20_WindowAgreesWithChronology ==
    (reply.op = "list_events" /\ reply.filter = NoFilter
       /\ ClampLimit(reply.limit) >= Cardinality(reply.table))
      => \A r \in reply.table :
           r \in reply.value
             <=> AtMinute(r.occurred_at) >= Cutoff(reply.now, reply.since_hours)

\* the list_events calls made once ingest() has returned: for every stored
\* row, at the instants whose one-hour cutoff falls half a unit before, on
\* and half a unit after the row's occurred_at
EventQueries ==
    [now : {AtMinute(r.occurred_at) + HourTicks + d : r \in events, d \in {-1, 0, 1}},
     since_hours : {1}, limit : LimitChoices, filter : FilterChoices]

\* ingest() is about to return its "ok" summary: the pass is over, the frame
\* still holds the batch
ReturnsOk(t) == pc[t] = "release" /\ result[t].status = "ok"

\* C19, as amended: when ingest() returns "ok", every event the connectors
\* returned in the pass has exactly one row of its dedupe identity in the
\* store, and list_events returns that row whenever the row's occurred_at
\* is at or after the cutoff instant, no filter excludes the row and the
\* limit is not smaller than the number of rows the query selects.
C19_StoredAndListed ==
    \A t \in Threads :
        ReturnsOk(t) =>
          \A k \in 1..Len(frame[t].batch) :
             LET own == {r \in events : r.dedupe_hash = DedupeHash(frame[t].batch[k])}
             IN /\ Cardinality(own) = 1
                /\ \A r \in own, q \in EventQueries :
                     ( /\ AtMinute(r.occurred_at) >= Cutoff(q.now, q.since_hours)
                       /\ FilterAccepts(q.filter, r)
                       /\ ClampLimit(q.limit) >=
                            Cardinality(ListEventsMatching(events, q.now,
                                                           q.since_hours, q.filter)) )
                       => \A S \in ListEvents(events, q.now, q.since_hours,
                                              q.limit, q.filter) : r \in S

\* a pass that returns "ok" has stored two events of different identities,
\* and a query by country whose cutoff is exactly the occurred_at of the row
\* of one of them returns that row
C19_Witness ==
    \E t \in Threads :
        /\ ReturnsOk(t)
        /\ Len(frame[t].batch) = 2
        /\ Cardinality(events) = 2
        /\ \E k \in 1..Len(frame[t].batch), r \in events, q \in EventQueries :
             /\ r.dedupe_hash = DedupeHash(frame[t].batch[k])
             /\ AtMinute(r.occurred_at) = Cutoff(q.now, q.since_hours)
             /\ q.filter = [NoFilter EXCEPT !.country = r.country]
             /\ \A S \in ListEvents(events, q.now, q.since_hours, q.limit, q.filter) :
                  r \in S

\* C19, as stated: when ingest() returns "ok", every event the connectors
\* returned in the pass is returned by list_events when its occurred_at lies
\* in the requested window and no filter excludes it.
C19_ListedWhenInWindow ==
    \A t \in Threads :
        ReturnsOk(t) =>
          \A k \in 1..Len(frame[t].batch), q \in EventQueries :
             LET e == frame[t].batch[k]
             IN ( /\ AtMinute(e.occurred_at) >= Cutoff(q.now, q.since_hours)
                  /\ FilterAccepts(q.filter, e) )
                  => \A S \in ListEvents(events, q.now, q.since_hours,
                                         q.limit, q.filter) :
                       \E r \in S : r.dedupe_hash = DedupeHash(e)

\* C21: a forced refresh that finds the refresh lock held by another
\* refresh returns without waiting for the lock and without a fetch of its
\* own, in each of the four polling services
C21_LosingCallerReturns ==
    svc # NoService =>
      \A t \in Threads :
         (svc.force[t] /\ svc.held[t]) => svc.pc[t] = "idle"

\* a thread is between the first statement and the commit of a write
InWrite(t) == db.op[t] \in WriteOps /\ db.pc[t] \in {"connected", "unlock"}

\* C22: the store serializes its writes.  At most one write operation is
\* inside its critical section, and it is the holder of the lock; a read
\* operation never holds the lock and never waits for it.
C22_SingleWriter ==
    /\ \A t \in Threads, u \in Threads : (InWrite(t) /\ InWrite(u)) => t = u
    /\ \A t \in Threads : InWrite(t) => db.lock = t
    /\ \A t \in Threads :
         db.op[t] \in ReadOps => (db.lock # t /\ db.pc[t] # "acquire")

\* a writer is inside its critical section, the other thread's read is
\* running on its own connection
C22_Witness ==
    \E t \in Threads, u \in Threads :
        /\ InWrite(t)
        /\ db.op[t] = "upsert_events"
        /\ db.op[u] = "list_events"
        /\ db.pc[u] = "connected"

\* C23: runtime_status never returns a torn snapshot.  In what it returns,
\* running implies that last_run_started_at is set, and a last_error is
\* the error of the pass that last started: it comes with a
\* last_run_finished_at that is not before last_run_started_at.
C23_NoTornStatus ==
    reply.op = "runtime_status" =>
      LET v == reply.value
      IN /\ v.running => v.last_run_started_at # NoTime
         /\ v.last_error # None =>
              /\ v.last_run_finished_at # NoTime
              /\ v.last_run_finished_at >= v.last_run_started_at

\* read during a pass that started after an earlier pass had failed: the
\* snapshot shows the new start, the old finish and no error
C23_Witness ==
    /\ reply.op = "runtime_status"
    /\ reply.value.running
    /\ reply.value.last_error = None
    /\ reply.value.last_run_finished_at # NoTime
    /\ reply.value.last_run_started_at > reply.value.last_run_finished_at
    /\ \E k \in 1..Len(ingestionLogs) :
         ingestionLogs[k].level = "ERROR" /\ ingestionLogs[k].connector = "scheduler"

\* C24: connector_status holds one row per connector name.  A call of
\* set_connector_status leaves exactly one row of its name, with enabled,
\* last_error and next_run_at as passed, items_fetched and the duration as
\* passed (negative values stored as 0); a successful call stamps
\* last_success_at and keeps last_error_at, a failed call stamps
\* last_error_at and keeps last_success_at; rows of other names are left
\* alone.
C24_OneRowPerConnector ==
    /\ [](\A r1 \in connectorStatus, r2 \in connectorStatus :
             r1.name = r2.name => r1 = r2)
    /\ [][(reply'.op = "set_connector_status" /\ reply' # reply) =>
            LET a == reply'.args
                old == {r \in connectorStatus : r.name = reply'.name}
                new == {r \in connectorStatus' : r.name = reply'.name}
                before(field) == IF old = {} THEN NoTime
                                 ELSE (CHOOSE r \in old : TRUE)[field]
            IN /\ Cardinality(new) = 1
               /\ \A r \in new :
                    /\ r.enabled = a.enabled
                    /\ r.last_error = a.error_message
                    /\ r.next_run_at = a.next_run_at
                    /\ r.items_fetched = (IF a.items_fetched < 0 THEN 0 ELSE a.items_fetched)
                    /\ r.last_duration_ms = (IF a.duration_ms < 0 THEN 0 ELSE a.duration_ms)
                    /\ r.updated_at = reply'.now
                    /\ a.success => /\ r.last_success_at = reply'.now
                                    /\ r.last_error_at = before("last_error_at")
                    /\ ~a.success => /\ r.last_error_at = reply'.now
                                     /\ r.last_success_at = before("last_success_at")
               /\ \A r \in connectorStatus : r.name # reply'.name => r \in connectorStatus'
               /\ \A r \in connectorStatus' : r.name # reply'.name => r \in connectorStatus
          ]_vars

\* a connector that succeeded and later failed: the failed call has just
\* been recorded, and the row still shows the earlier success
C24_Witness ==
    /\ reply.op = "set_connector_status"
    /\ ~reply.args.success
    /\ \E r \in connectorStatus :
         /\ r.name = reply.name
         /\ r.last_success_at # NoTime
         /\ r.last_error_at = reply.now
         /\ r.last_success_at < r.last_error_at
    /\ Cardinality(connectorStatus) = 2

\* the candidates of a batch as _evaluate_rules receives them
Candidates(batch) ==
    {[id |-> batch[i].id, dedupe_hash |-> DedupeHash(batch[i]),
      ingested_at |-> batch[i].ingested_at] : i \in 1..Len(batch)}

\* C25: the steps of a pass are ordered.  The events table changes only in
\* the upsert of a pass whose connector loop is over, with one summary per
\* enabled connector; alert events are created and candidates evaluated
\* only by a pass whose whole batch is already stored, and only for events
\* of that batch; the job.ingest audit entry is written only by a pass that
\* has evaluated its batch, with the count that evaluation gave; and
\* running becomes false only in the finally of a pass that has written its
\* audit entry or has failed.
C25_StepsInOrder ==
    [][ /\ events' # events =>
             \E t \in Threads :
                /\ pc[t] = "upsert"
                /\ frame[t].ci = Len(Connectors) + 1
                /\ [k \in 1..Len(frame[t].summaries) |-> frame[t].summaries[k].name]
                     = EnabledConnectors
        /\ (delivered' # delivered
              \/ Cardinality(alertEvents') > Cardinality(alertEvents)) =>
             \E t \in Threads :
                /\ pc[t] = "evaluate"
                /\ \A i \in 1..Len(frame[t].batch) :
                      \E r \in events : r.dedupe_hash = DedupeHash(frame[t].batch[i])
                /\ delivered' = delivered \cup Candidates(frame[t].batch)
                /\ \A a \in alertEvents' \ alertEvents :
                      \E i \in 1..Len(frame[t].batch) : a.event_id = frame[t].batch[i].id
        /\ auditLogs' # auditLogs =>
             \E t \in Threads :
                /\ pc[t] = "audit"
                /\ Candidates(frame[t].batch) \subseteq delivered
                /\ \A a \in auditLogs' \ auditLogs :
                      /\ a.alerts_fired = frame[t].fired
                      /\ a.ingested = Len(frame[t].batch)
        /\ (running /\ ~running') =>
             \E t \in Threads :
                /\ pc[t] = "finally"
                /\ \/ frame[t].failed # None
                   \/ /\ result[t].status = "ok"
                      /\ \E a \in auditLogs :
                           a.time >= lastStarted /\ a.ingested = frame[t].ingested
      ]_vars

\* a pass has gone through all its steps: its events are stored, an alert
\* was created, the audit entry is written and running is false again
C25_Witness ==
    \E t \in Threads :
        /\ pc[t] = "release"
        /\ result[t].status = "ok"
        /\ ~running
        /\ Len(frame[t].batch) = 2
        /\ \A i \in 1..Len(frame[t].batch) :
              \E a \in alertEvents : a.event_id = frame[t].batch[i].id
        /\ \E a \in auditLogs : a.ingested = 2

\* _evaluate_rules has raised in the pass of t, after upsert_events returned
EvaluationFailed(t) ==
    pc[t] \in {"handler", "finally", "release"} /\ frame[t].failed = "add_alert_event"

\* C26: an error of the rule evaluation does not undo the upsert.  From the
\* moment _evaluate_rules raises until ingest() returns, every event of the
\* pass's batch has its row in the events table, and list_events over a
\* window that begins at the row's occurred_at returns it.
C26_EvaluationFailureKeepsEvents ==
    \A t \in Threads :
        EvaluationFailed(t) =>
          \A i \in 1..Len(frame[t].batch) :
             LET own == {r \in events : r.dedupe_hash = DedupeHash(frame[t].batch[i])}
             IN /\ Cardinality(own) = 1
                /\ \A r \in own :
                     \A S \in ListEvents(events, AtMinute(r.occurred_at) + HourTicks,
                                         1, Cardinality(events), NoFilter) :
                        r \in S

\* the evaluation of a batch of two events failed at its second alert
\* event: the first alert is recorded and both events are stored
C26_Witness ==
    \E t \in Threads :
        /\ EvaluationFailed(t)
        /\ pc[t] = "handler"
        /\ Len(frame[t].batch) = 2
        /\ Cardinality(events) = 2
        /\ \E a \in alertEvents : a.event_id = frame[t].batch[1].id
        /\ ~\E a \in alertEvents : a.event_id = frame[t].batch[2].id

\* C27: evaluation failures are isolated per (rule, event) pair.  When
\* recording one pair has failed, the remaining matching pairs of the batch
\* are still recorded: at most the failing pair lacks its alert event.
C27_FailureIsolatedPerPair ==
    \A t \in Threads :
        EvaluationFailed(t) =>
          LET pairs == MatchingPairs(frame[t].batch)
          IN Cardinality({k \in 1..Len(pairs) : ~AlertExists(alertEvents, pairs[k])}) <= 1

\* the filters of a rule other than its spike detection, as the
\* specification states them
PassesFilters(rule, event) ==
    /\ event.severity >= rule.severity_threshold
    /\ rule.countries = {} \/ event.country \in rule.countries
    /\ rule.regions = {} \/ event.region \in rule.regions
    /\ rule.categories = {} \/ event.category \in rule.categories
    /\ \/ rule.keywords = {}
       \/ \E word \in rule.keywords :
            Contains(NormalizeTextCommon(event.title \o <<Space>> \o event.summary
                                           \o <<Space>> \o event.body_snippet),
                     NormalizeTextCommon(word))

RuleMatched == reply.op = "rule_matches"

\* C28: with spike_detection off, a rule matches an event exactly when the
\* event's severity is at least the rule's threshold, each of the countries,
\* regions and categories lists is empty or contains the event's value, and
\* keywords is empty or one normalized keyword occurs in the normalized
\* "title summary snippet"; an empty list never rejects.
C28_MatchesExactlyTheFilters ==
    (RuleMatched /\ ~reply.rule.spike_detection) =>
        reply.value = PassesFilters(reply.rule, reply.event)

\* C28: a rule with every list empty has matched an event whose severity
\* equals its threshold, and a rule with non-empty lists has rejected one.
C28_Witness ==
    /\ RuleMatched
    /\ ~reply.rule.spike_detection
    /\ reply.event.severity = reply.rule.severity_threshold
    /\ reply.rule.countries = {} /\ reply.rule.regions = {}
    /\ reply.rule.categories = {} /\ reply.rule.keywords = {}
    /\ reply.value

\* delta_ratio of a country over the whole table, in thousandths
DeltaOf(table, now, country) ==
    LET entries == {a \in PulseEntries(table, now, PulseWindowHours, PulseBaselineHours) :
                       a.country = country}
    IN IF entries = {} THEN 0 ELSE (CHOOSE a \in entries : TRUE).delta_ratio

\* C29: with spike_detection set, an event that passes the other filters
\* matches exactly when the delta ratio of its country, computed from the
\* store when the rule is evaluated, is at least 1.0, however many countries
\* have recent events.
C29_SpikeMatchesExactlyAtDouble ==
    (RuleMatched /\ reply.rule.spike_detection
       /\ PassesFilters(reply.rule, reply.event)) =>
        reply.value = (DeltaOf(reply.table, reply.now, reply.event.country) >= 1000)

\* the alert events a step adds to the table
CreatedAlerts == {a \in alertEvents' : ~\E b \in alertEvents : b.id = a.id}

\* C30: the alert events a pass creates refer only to enabled rules and only
\* to events of the batch of that pass: a rule that is not enabled never
\* gets an alert event, and an event stored by an earlier pass and absent
\* from the batch is not evaluated.
C30_OnlyEnabledRulesAndBatchEvents ==
    [][\A a \in CreatedAlerts :
         /\ \E i \in 1..Len(Rules) : Rules[i].id = a.rule_id /\ Rules[i].enabled
         /\ \E t \in Threads :
              /\ pc[t] = "evaluate"
              /\ \E j \in 1..Len(frame[t].batch) : frame[t].batch[j].id = a.event_id]_vars

\* C30: a pass has evaluated its batch and recorded an alert event for it
\* while the store holds, from an earlier pass, an event that matches the
\* enabled rule, is not in the batch and has no alert event; the rule that
\* is not enabled, which every event matches, has none either.
C30_Witness ==
    \E t \in Threads :
        /\ pc[t] = "finish"
        /\ \E a \in alertEvents, j \in 1..Len(frame[t].batch) :
              a.event_id = frame[t].batch[j].id
        /\ \E r \in events :
              /\ RuleMatches(Rules[1], r)
              /\ ~\E j \in 1..Len(frame[t].batch) : frame[t].batch[j].id = r.id
              /\ ~\E a \in alertEvents : a.event_id = r.id
        /\ \E i \in 1..Len(Rules) :
              /\ ~Rules[i].enabled
              /\ \A j \in 1..Len(frame[t].batch) : RuleMatches(Rules[i], frame[t].batch[j])
              /\ ~\E a \in alertEvents : a.rule_id = Rules[i].id

\* C31: list_events returns its rows in non-increasing occurred_at order,
\* at most min(max(limit, 1), 500) of them; timeline returns its buckets in
\* strictly increasing bucket_time order, each a multiple of the bucket width
\* clamped to [15, 360] minutes that holds the events of that width; pulse
\* returns at most 12 entries in non-increasing order of delta ratio, equal
\* ratios in non-increasing order of recent count.
C31_OrderedAndBounded ==
    LET v == reply.value
        width == IF reply.bucket_minutes < 15 THEN 15
                 ELSE IF reply.bucket_minutes > 360 THEN 360 ELSE reply.bucket_minutes
    IN /\ reply.op = "list_events_rows" =>
            /\ \A i, j \in 1..Len(v) : i < j => v[i].occurred_at >= v[j].occurred_at
            /\ Len(v) <= (IF reply.limit < 1 THEN 1
                          ELSE IF reply.limit > 500 THEN 500 ELSE reply.limit)
       /\ reply.op = "timeline" =>
            /\ \A i, j \in 1..Len(v) : i < j => v[i].bucket_time < v[j].bucket_time
            /\ \A i \in 1..Len(v) :
                 /\ v[i].bucket_time % width = 0
                 /\ v[i].event_count =
                      Cardinality({r \in reply.table :
                         /\ OccurredSince(r.occurred_at, reply.now, reply.since_hours)
                         /\ r.occurred_at >= v[i].bucket_time
                         /\ r.occurred_at < v[i].bucket_time + width})
       /\ reply.op = "pulse" =>
            /\ Len(v) <= 12
            /\ \A i, j \in 1..Len(v) : i < j =>
                 \/ v[i].delta_ratio > v[j].delta_ratio
                 \/ v[i].delta_ratio = v[j].delta_ratio
                      /\ v[i].recent_count >= v[j].recent_count

\* C31: a call has returned rows of different occurred_at cut by its limit,
\* or buckets of a width that was clamped, or twelve entries of a pulse with
\* thirteen active countries.
C31_Witness ==
    \/ /\ reply.op = "list_events_rows"
       /\ Len(reply.value) = 2
       /\ reply.value[1].occurred_at > reply.value[2].occurred_at
       /\ Cardinality(reply.table) > 2
    \/ /\ reply.op = "timeline"
       /\ reply.bucket_minutes > 360
       /\ Len(reply.value) > 1
    \/ /\ reply.op = "pulse"
       /\ Len(reply.value) = 12
       /\ Cardinality({r.country : r \in reply.table}) > 12
       /\ reply.value[1].delta_ratio > reply.value[12].delta_ratio

\* C32: pulse(window_hours, baseline_hours) reports a country exactly when
\* its count of events at or after now - window is above zero, with the
\* baseline counting the events in [now - max(window + 1, baseline),
\* now - window), and delta ratio (recent - baseline) / max(1, baseline)
\* when the baseline count is above zero and recent otherwise.
C32_PulseReportsRecentCountries ==
    reply.op = "pulse" =>
        LET v == reply.value
            longer == IF reply.window_hours + 1 > reply.baseline_hours
                      THEN reply.window_hours + 1 ELSE reply.baseline_hours
            window_start == reply.now - reply.window_hours * HourTicks
            baseline_start == reply.now - longer * HourTicks
            recent(c) == Cardinality({r \in reply.table :
                            r.country = c /\ AtMinute(r.occurred_at) >= window_start})
            baseline(c) == Cardinality({r \in reply.table :
                            /\ r.country = c
                            /\ AtMinute(r.occurred_at) >= baseline_start
                            /\ AtMinute(r.occurred_at) < window_start})
        IN /\ {v[i].country : i \in 1..Len(v)}
                = {c \in {r.country : r \in reply.table} : recent(c) > 0}
           /\ \A i \in 1..Len(v) :
                /\ v[i].recent_count = recent(v[i].country)
                /\ v[i].baseline_count = baseline(v[i].country)
                /\ IF baseline(v[i].country) > 0
                   THEN v[i].delta_ratio * baseline(v[i].country)
                          = 1000 * (recent(v[i].country) - baseline(v[i].country))
                   ELSE v[i].delta_ratio = 1000 * recent(v[i].country)

\* two candidates describe the same happening: equal first 80 characters of
\* the normalized title, equal normalized country, equal hour of occurrence
SameHappening(a, b) ==
    LET prefix(e) == LET norm == NormalizeTextCommon(e.title)
                     IN [i \in 1..(IF Len(norm) < 80 THEN Len(norm) ELSE 80) |-> norm[i]]
    IN /\ prefix(a) = prefix(b)
       /\ NormalizeTextCommon(a.country) = NormalizeTextCommon(b.country)
       /\ a.occurred_at \div MinutesPerHour = b.occurred_at \div MinutesPerHour

\* C33: the cluster re-keying pass returns the same events in the same number
\* and order, changes nothing but cluster_id and updated_at, and gives two
\* candidates of the same happening the same cluster_id whichever connector
\* built them.
C33_RekeyingKeepsTheBatch ==
    reply.op = "normalize_clusters" =>
        LET b == reply.batch
            v == reply.value
        IN /\ Len(v) = Len(b)
           /\ \A i \in 1..Len(b) :
                /\ DOMAIN v[i] = DOMAIN b[i]
                /\ \A f \in DOMAIN b[i] \ {"cluster_id", "updated_at"} : v[i][f] = b[i][f]
           /\ \A i, j \in 1..Len(b) :
                SameHappening(b[i], b[j]) => v[i].cluster_id = v[j].cluster_id

\* C33: a list of two candidates of the same happening, built by different
\* connectors under different provisional keys and with titles that differ
\* after the prefix, has come back as two events with one cluster_id.
C33_Witness ==
    /\ reply.op = "normalize_clusters"
    /\ Len(reply.batch) = 2 /\ Len(reply.value) = 2
    /\ reply.batch[1].source # reply.batch[2].source
    /\ reply.batch[1].title # reply.batch[2].title
    /\ reply.batch[1].cluster_id # reply.batch[2].cluster_id
    /\ reply.value[1].cluster_id = reply.value[2].cluster_id
    /\ reply.value[1].updated_at # reply.batch[1].updated_at

\* the loop of thread t is at the connector without credentials
AtDisabledConnector(t) ==
    /\ pc[t] = "connectors"
    /\ Connectors[frame[t].ci] = "ACLED"

\* C34: a connector that reports itself disabled is skipped.  The step of
\* the loop that meets it builds no event, adds nothing to the batch, the
\* summaries or the ingestion log, and, unless the store raises, writes the
\* connector's status row with enabled false, no success, zero items and
\* the message "connector disabled"; the loop then goes on.
C34_DisabledConnectorSkipped ==
    [][\A t \in Threads :
         (AtDisabledConnector(t) /\ frame'[t] # frame[t]) =>
            /\ nextId' = nextId
            /\ frame'[t].batch = frame[t].batch
            /\ frame'[t].summaries = frame[t].summaries
            /\ ingestionLogs' = ingestionLogs
            /\ events' = events
            /\ pc'[t] # "handler" =>
                 /\ frame'[t].ci = frame[t].ci + 1
                 /\ pc'[t] \in {"connectors", "upsert"}
                 /\ \E r \in connectorStatus' :
                      /\ r.name = "ACLED"
                      /\ ~r.enabled
                      /\ r.items_fetched = 0
                      /\ r.last_error = "connector disabled"
                      /\ r.last_error_at = clock
                      /\ r.last_success_at = NoTime
                 /\ \A r \in connectorStatus' : r.name # "ACLED" => r \in connectorStatus]_vars

\* C34: a pass has returned ok with the events of the enabled connectors
\* stored and the disabled connector's row written as skipped.
C34_Witness ==
    \E t \in Threads :
        /\ pc[t] = "release"
        /\ result[t].status = "ok"
        /\ result[t].ingested > 0
        /\ \A i \in 1..Len(frame[t].batch) : frame[t].batch[i].source # "ACLED"
        /\ \E r \in connectorStatus :
             r.name = "ACLED" /\ ~r.enabled /\ r.last_error = "connector disabled"
        /\ \E r \in connectorStatus : r.name = "A" /\ r.enabled /\ r.items_fetched > 0

\* what one request keeps whatever the transport does: the URL is opened at
\* most retries + 1 times, a return follows the first attempt that succeeded,
\* RuntimeError follows the last attempt's caught error, and a payload that
\* does not parse ends the call
FetchIsBounded ==
    http # NoRequest =>
        /\ http.opened <= http.retries + 1
        /\ http.attempt <= http.retries
        /\ http.pc \in {"returned", "parse"} =>
             http.opened = http.attempt + 1 /\ http.raised = "none"
        /\ http.raised = "RuntimeError" =>
             http.opened = http.retries + 1 /\ http.last_error \in CaughtErrors
        /\ http.parsed <= 1
        /\ http.raised = "ParseError" =>
             http.pc = "raised" /\ http.parsed = 1
                 /\ http.opened = http.attempt + 1
        /\ http.attempt > 0 => http.slept_after \in CaughtErrors

\* C35: HttpFetcher.get_bytes opens the URL at most retries + 1 times and then
\* ends; it returns on the first attempt that succeeds, it sleeps and tries
\* again only after a transient transport error, it raises RuntimeError once
\* the attempts are used up, and a payload that get_json or get_xml cannot
\* parse ends the call without another attempt.
C35_BoundedRetriesOnTransientErrors ==
    /\ FetchIsBounded
    /\ http # NoRequest /\ http.attempt > 0 =>
         http.slept_after \in TransientErrors

\* C36: referential integrity of alerts.  After any sequence of passes the
\* event_id of every alert_events row is the id of a row of the events table,
\* also when the matched candidate collapsed onto a row first stored under
\* another candidate's id.
C36_AlertsReferenceStoredEvents ==
    \A a \in alertEvents : \E e \in events : e.id = a.event_id

\* C37: for any sequence of passes, passes that finish within one clock
\* second included, a pass whose connector processing, upsert and rule
\* evaluation all succeeded, and whose audit write meets no fault of the
\* store, appends exactly one job.ingest entry to audit_logs and returns
\* status "ok".
C37_OneAuditEntryPerGoodPass ==
    [][\A t \in Threads :
          (pc[t] = "audit" /\ pc'[t] # "audit" /\ envSteps' = envSteps) =>
             /\ Cardinality(auditLogs') = Cardinality(auditLogs) + 1
             /\ \A a \in auditLogs' \ auditLogs : a.action = "job.ingest"
             /\ result'[t].status = "ok"]_vars

\* the `ingested` count of the most recent pass that returned "ok": such a
\* pass is one whose job.ingest audit row was written
LastOkIngested ==
    IF auditLogs = {} THEN 0
    ELSE (CHOOSE a \in auditLogs : \A b \in auditLogs : b.time <= a.time).ingested

\* C38: when a pass releases the run lock and leaves the orchestrator idle,
\* the status describes that pass: last_run_finished_at is set and not
\* earlier than last_run_started_at, last_error is non-null exactly when the
\* pass did not return "ok", and last_ingested_count is the count of the
\* most recent pass that returned "ok"; a busy call changes none of them.
C38_StatusDescribesLastPass ==
    [][\A t \in Threads :
          /\ (pc[t] = "release" /\ pc'[t] = "returned") =>
                /\ lastFinished' # NoTime
                /\ lastFinished' >= lastStarted'
                /\ (lastError' # None) <=> (result'[t].status # "ok")
                /\ lastIngested' = LastOkIngested'
          /\ (calls' # calls /\ runLock' # t /\ result'[t].status = "busy") =>
                UNCHANGED <<lastStarted, lastFinished, lastError, lastIngested>>
      ]_vars

\* t is in a refresh whose fetch raised or brought no items
FetchFailed(s, t) == s.outcome[t] \in {"empty", "raised"}

\* C39: in the News, Video and Market services a refresh whose fetch raises
\* or yields no items leaves the cache as it was and releases the refresh
\* lock when it returns: the callers keep the last good snapshot and the
\* lock is free for a later refresh.
C39_FailedRefreshKeepsCache ==
    [][\A t \in Threads :
          (svc # NoService /\ svc.name \in {"News", "Video", "Market"}) =>
             /\ (svc.pc[t] = "fetch" /\ FetchFailed(svc', t)) =>
                   svc'.cache = svc.cache /\ svc'.lock = t
             /\ (svc.pc[t] = "release" /\ FetchFailed(svc, t)) =>
                   /\ svc.lock = t
                   /\ svc'.pc[t] # svc.pc[t] =>
                        svc'.pc[t] = "idle" /\ svc'.lock = NoThread
                           /\ svc'.cache = svc.cache
      ]_vars

\* a refresh that brought items was followed by one whose fetch failed and
\* which has returned: the first snapshot is still the cache, the lock is free
C39_Witness ==
    /\ svc # NoService
    /\ svc.name \in {"News", "Video", "Market"}
    /\ svc.fetches >= 2
    /\ svc.cache = Fetched(1)
    /\ svc.lock = NoThread
    /\ \E t \in Threads : svc.pc[t] = "idle" /\ FetchFailed(svc, t)

\* the status arguments that read acked or resolved once blanks around them
\* and capitals are disregarded
TakenStatusTexts ==
    {<<"a", "c", "k", "e", "d">>, <<" ", "A", "c", "k", "e", "d", " ">>,
     <<"r", "e", "s", "o", "l", "v", "e", "d">>,
     <<"R", "e", "s", "o", "l", "v", "e", "d">>}

\* C40: update_alert_event_status returns false and leaves alert_events as
\* it was when the status, trimmed and lowercased, is neither acked nor
\* resolved ("new" among them) or when no AlertEvent has the id; it returns
\* true only when a row was updated, and then only that row has changed.
C40_RejectsUnknownStatusAndId ==
    [][(reply'.op = "update_alert_event_status" /\ reply' # reply) =>
          LET taken == reply'.requested \in TakenStatusTexts
              found == \E a \in alertEvents : a.id = reply'.id
          IN /\ (~taken \/ ~found) =>
                   reply'.value = FALSE /\ alertEvents' = alertEvents
             /\ reply'.value = TRUE =>
                   /\ taken /\ found
                   /\ \E b \in alertEvents' :
                         /\ b.id = reply'.id
                         /\ b.status = reply'.status
                         /\ b.status \in {"acked", "resolved"}
                         /\ clock \in {b.acked_at, b.resolved_at}
                   /\ {a \in alertEvents' : a.id # reply'.id}
                        = {a \in alertEvents : a.id # reply'.id}
             /\ reply'.value \in BOOLEAN
      ]_vars

\* "new" was asked for an alert that exists and is acknowledged: the call
\* returned false and the alert is still acknowledged
C40_Witness ==
    /\ reply.op = "update_alert_event_status"
    /\ reply.requested = NewText
    /\ reply.value = FALSE
    /\ \E a \in alertEvents : a.id = reply.id /\ a.status = "acked"

====
